---------------------------- MODULE Spec2Model ----------------------------
(***************************************************************************)
(* zaifer-mcp: request signing, nonce generation, the signed-POST          *)
(* envelope and the tool handlers that sit on top of them.                 *)
(*                                                                         *)
(* Strings that pass through str(), urlencode or an f-string are modelled  *)
(* as sequences of one-character strings, so that escaping, padding and    *)
(* concatenation are computed and not assumed.  Python values are tagged   *)
(* records [t, n, s]: t the type, n the number, s the characters (or, for  *)
(* a dict, the sequence of <<key, value>> pairs in insertion order).       *)
(* The Japanese messages of the source are written as ASCII glosses,       *)
(* because the module's strings are ASCII.                                 *)
(***************************************************************************)
EXTENDS Integers, Sequences, FiniteSets, TLC

\* ---------------------------------------------------------------- bounds
\* number of tool / client invocations in one run
MaxCalls == 2

\* ------------------------------------------------------ string constants
\* the keys of request parameters, auth headers and the response envelope
K ==
    [method |-> <<"m","e","t","h","o","d">>,
     nonce |-> <<"n","o","n","c","e">>,
     currency_pair |-> <<"c","u","r","r","e","n","c","y","_","p","a","i","r">>,
     action |-> <<"a","c","t","i","o","n">>,
     price |-> <<"p","r","i","c","e">>,
     amount |-> <<"a","m","o","u","n","t">>,
     order_id |-> <<"o","r","d","e","r","_","i","d">>,
     count |-> <<"c","o","u","n","t">>,
     since |-> <<"s","i","n","c","e">>,
     end |-> <<"e","n","d">>,
     symbol |-> <<"s","y","m","b","o","l">>,
     resolution |-> <<"r","e","s","o","l","u","t","i","o","n">>,
     from |-> <<"f","r","o","m">>,
     to |-> <<"t","o">>,
     key |-> <<"k","e","y">>,
     sign |-> <<"s","i","g","n">>,
     success |-> <<"s","u","c","c","e","s","s">>,
     error |-> <<"e","r","r","o","r">>,
     return |-> <<"r","e","t","u","r","n">>,
     timestamp |-> <<"t","i","m","e","s","t","a","m","p">>,
     your_action |-> <<"y","o","u","r","_","a","c","t","i","o","n">>,
     fee |-> <<"f","e","e">>,
     address |-> <<"a","d","d","r","e","s","s">>,
     txid |-> <<"t","x","i","d">>,
     status |-> <<"s","t","a","t","u","s">>,
     date |-> <<"d","a","t","e">>,
     last |-> <<"l","a","s","t">>,
     high |-> <<"h","i","g","h">>,
     low |-> <<"l","o","w">>,
     ask |-> <<"a","s","k">>,
     bid |-> <<"b","i","d">>,
     volume |-> <<"v","o","l","u","m","e">>,
     id |-> <<"i","d">>,
     time |-> <<"t","i","m","e">>,
     open |-> <<"o","p","e","n">>,
     close |-> <<"c","l","o","s","e">>,
     ohlc_data |-> <<"o","h","l","c","_","d","a","t","a">>,
     data_count |-> <<"d","a","t","a","_","c","o","u","n","t">>,
     asks |-> <<"a","s","k","s">>,
     bids |-> <<"b","i","d","s">>,
     item_japanese |-> <<"i","t","e","m","_","j","a","p","a","n","e","s","e">>,
     aux_japanese |-> <<"a","u","x","_","j","a","p","a","n","e","s","e">>,
     item_unit_min |-> <<"i","t","e","m","_","u","n","i","t","_","m","i","n">>,
     item_unit_step |-> <<"i","t","e","m","_","u","n","i","t","_","s","t","e","p">>,
     aux_unit_min |-> <<"a","u","x","_","u","n","i","t","_","m","i","n">>,
     aux_unit_step |-> <<"a","u","x","_","u","n","i","t","_","s","t","e","p">>,
     aux_unit_point |-> <<"a","u","x","_","u","n","i","t","_","p","o","i","n","t">>]

\* the method names, the supported pairs, and str() of True, False, None
S ==
    [get_info |-> <<"g","e","t","_","i","n","f","o">>,
     trade |-> <<"t","r","a","d","e">>,
     cancel_order |-> <<"c","a","n","c","e","l","_","o","r","d","e","r">>,
     active_orders |-> <<"a","c","t","i","v","e","_","o","r","d","e","r","s">>,
     trade_history |-> <<"t","r","a","d","e","_","h","i","s","t","o","r","y">>,
     btc_jpy |-> <<"b","t","c","_","j","p","y">>,
     eth_jpy |-> <<"e","t","h","_","j","p","y">>,
     xym_jpy |-> <<"x","y","m","_","j","p","y">>,
     True |-> <<"T","r","u","e">>,
     False |-> <<"F","a","l","s","e">>,
     None |-> <<"N","o","n","e">>,
     both |-> <<"b","o","t","h">>,
     self |-> <<"s","e","l","f">>,
     buy |-> <<"b","u","y">>,
     sell |-> <<"s","e","l","l">>,
     taker |-> <<"t","a","k","e","r">>,
     maker |-> <<"m","a","k","e","r">>,
     unknown |-> <<"u","n","k","n","o","w","n">>,
     bid |-> <<"b","i","d">>,
     ask |-> <<"a","s","k">>,
     zero |-> <<"0">>,
     ashi |-> <<"-","a","s","h","i">>]

\* the error messages (the Japanese ones as ASCII glosses; JsonDecode, NoGet and
\* TooManyRedirects are the texts of the library exceptions the client wraps)
M ==
    [ApiError |-> <<"A","P","I"," ","e","r","r","o","r",":"," ">>,
     UnknownError |-> <<"U","n","k","n","o","w","n"," ","e","r","r","o","r">>,
     HttpError |-> <<"H","T","T","P"," ","e","r","r","o","r",":"," ">>,
     ConnectionError |-> <<"C","o","n","n","e","c","t","i","o","n"," ","e","r","r","o","r",":"," ","C","o","u","l","d"," ","n","o","t"," ","c","o","n","n","e","c","t"," ","t","o"," ","s","e","r","v","e","r">>,
     TimeoutError |-> <<"T","i","m","e","o","u","t"," ","e","r","r","o","r",":"," ","R","e","q","u","e","s","t"," ","t","i","m","e","d"," ","o","u","t">>,
     RequestError |-> <<"R","e","q","u","e","s","t"," ","e","r","r","o","r",":"," ">>,
     UnexpectedError |-> <<"U","n","e","x","p","e","c","t","e","d"," ","e","r","r","o","r",":"," ">>,
     JsonDecode |-> <<"E","x","p","e","c","t","i","n","g"," ","v","a","l","u","e",":"," ","l","i","n","e"," ","1"," ","c","o","l","u","m","n"," ","1"," ","(","c","h","a","r"," ","0",")">>,
     NoAuthPost |-> <<"a","u","t","h"," ","n","o","t"," ","c","o","n","f","i","g","u","r","e","d",":"," ","s","e","t"," ","Z","A","I","F","_","A","P","I","_","K","E","Y"," ","a","n","d"," ","Z","A","I","F","_","A","P","I","_","S","E","C","R","E","T">>,
     NoAuthTool |-> <<"a","u","t","h"," ","n","o","t"," ","c","o","n","f","i","g","u","r","e","d",":"," ","s","e","t"," ","k","e","y"," ","a","n","d"," ","s","e","c","r","e","t"," ","i","n"," ",".","e","n","v">>,
     UnsupportedPair |-> <<"u","n","s","u","p","p","o","r","t","e","d"," ","c","u","r","r","e","n","c","y"," ","p","a","i","r",":"," ">>,
     BadIso |-> <<"I","n","v","a","l","i","d"," ","i","s","o","f","o","r","m","a","t"," ","s","t","r","i","n","g",":"," ">>,
     BadDateChart |-> <<"b","a","d"," ","d","a","t","e"," ","f","o","r","m","a","t",":"," ","u","s","e"," ","Y","Y","Y","Y","-","M","M","-","D","D","T","H","H",":","M","M",":","S","S">>,
     NoGet |-> <<"'","l","i","s","t","'"," ","o","b","j","e","c","t"," ","h","a","s"," ","n","o"," ","a","t","t","r","i","b","u","t","e"," ","'","g","e","t","'">>,
     TooManyRedirects |-> <<"E","x","c","e","e","d","e","d"," ","3","0"," ","r","e","d","i","r","e","c","t","s",".">>,
     BadInt |-> <<"i","n","v","a","l","i","d"," ","l","i","t","e","r","a","l"," ","f","o","r"," ","i","n","t","(",")"," ","w","i","t","h"," ","b","a","s","e"," ","1","0">>,
     BadIntType |-> <<"i","n","t","(",")"," ","a","r","g","u","m","e","n","t"," ","m","u","s","t"," ","b","e"," ","a"," ","s","t","r","i","n","g"," ","o","r"," ","a"," ","r","e","a","l"," ","n","u","m","b","e","r">>,
     ConversionSyntax |-> <<"[","<","c","l","a","s","s"," ","'","d","e","c","i","m","a","l",".","C","o","n","v","e","r","s","i","o","n","S","y","n","t","a","x","'",">","]">>,
     NoAttrGet |-> <<"o","b","j","e","c","t"," ","h","a","s"," ","n","o"," ","a","t","t","r","i","b","u","t","e"," ","'","g","e","t","'">>,
     NoAttrItems |-> <<"'","l","i","s","t","'"," ","o","b","j","e","c","t"," ","h","a","s"," ","n","o"," ","a","t","t","r","i","b","u","t","e"," ","'","i","t","e","m","s","'">>,
     NotIterable |-> <<"o","b","j","e","c","t"," ","i","s"," ","n","o","t"," ","i","t","e","r","a","b","l","e">>,
     NotSubscriptable |-> <<"o","b","j","e","c","t"," ","i","s"," ","n","o","t"," ","s","u","b","s","c","r","i","p","t","a","b","l","e">>,
     IndexError |-> <<"l","i","s","t"," ","i","n","d","e","x"," ","o","u","t"," ","o","f"," ","r","a","n","g","e">>]

\* the base URLs and the paths under them
U ==
    [tapi |-> <<"h","t","t","p","s",":","/","/","a","p","i",".","z","a","i","f",".","j","p","/","t","a","p","i">>,
     api |-> <<"h","t","t","p","s",":","/","/","a","p","i",".","z","a","i","f",".","j","p","/","a","p","i">>,
     chart |-> <<"h","t","t","p","s",":","/","/","z","a","i","f",".","j","p","/","z","a","i","f","_","c","h","a","r","t","_","a","p","i","/","v","1">>,
     ticker |-> <<"/","1","/","t","i","c","k","e","r","/">>,
     depth |-> <<"/","1","/","d","e","p","t","h","/">>,
     pairs_all |-> <<"/","1","/","c","u","r","r","e","n","c","y","_","p","a","i","r","s","/","a","l","l">>,
     history |-> <<"/","h","i","s","t","o","r","y">>]

\* sample argument, credential and response strings
In ==
    [doge_jpy |-> <<"d","o","g","e","_","j","p","y">>,
     bid |-> <<"b","i","d">>,
     m60 |-> <<"6","0">>,
     x_y |-> <<"x"," ","y">>,
     xplusy |-> <<"x","+","y">>,
     x |-> <<"x">>,
     bad_nonce |-> <<"b","a","d"," ","n","o","n","c","e">>,
     no_permission |-> <<"n","o"," ","p","e","r","m","i","s","s","i","o","n">>,
     xtest |-> <<"X","-","T","e","s","t">>,
     a |-> <<"a">>,
     KEY1 |-> <<"K","E","Y","1">>,
     SEC1 |-> <<"S","E","C","1">>,
     SEC2 |-> <<"S","E","C","2">>,
     date_good |-> <<"2","0","2","4","-","0","1","-","0","1">>,
     date_bad |-> <<"y","e","s","t","e","r","d","a","y">>,
     boom |-> <<"b","o","o","m">>,
     json_chart |-> <<"{","\"","o","h","l","c","_","d","a","t","a","\"",":"," ","[","]",","," ","\"","d","a","t","a","_","c","o","u","n","t","\"",":"," ","0","}">>]

\* ---------------------------------------------------------- Python values
None == [t |-> "none", n |-> 0, s |-> <<>>]
PyStrV(chars) == [t |-> "str", n |-> 0, s |-> chars]
PyInt(i) == [t |-> "int", n |-> i, s |-> <<>>]
PyBool(b) == [t |-> "bool", n |-> IF b THEN 1 ELSE 0, s |-> <<>>]
\* a float with an integral value i (repr "i.0")
PyFloat(i) == [t |-> "float", n |-> i, s |-> <<>>]
PyDict(pairs) == [t |-> "dict", n |-> 0, s |-> pairs]
\* a list value
PyList(items) == [t |-> "list", n |-> 0, s |-> items]
\* an opaque JSON object, named by s
PyObj(name) == [t |-> "obj", n |-> 0, s |-> name]
EmptyDict == PyDict(<<>>)

\* truth value testing: `if not x`, `if x`
Truthy(x) ==
    CASE x.t = "none" -> FALSE
      [] x.t \in {"int", "bool", "float"} -> x.n # 0
      [] x.t \in {"str", "dict"} -> Len(x.s) > 0
      [] OTHER -> TRUE

DigitChars == <<"0", "1", "2", "3", "4", "5", "6", "7", "8", "9">>

\* str(i) for an int i >= 0
RECURSIVE IntStr(_)
IntStr(i) ==
    IF i < 10 THEN <<DigitChars[i + 1]>>
    ELSE IntStr(i \div 10) \o <<DigitChars[(i % 10) + 1]>>

\* str(x)
PyStr(x) ==
    CASE x.t = "str" -> x.s
      [] x.t = "int" -> IntStr(x.n)
      [] x.t = "float" -> IntStr(x.n) \o <<".", "0">>
      [] x.t = "bool" -> IF x.n = 1 THEN S.True ELSE S.False
      [] x.t = "none" -> S.None
      [] x.t = "decimal" ->
            IntStr(x.n) \o (IF Len(x.s) = 0 THEN <<>> ELSE <<".">> \o x.s)
      [] OTHER -> <<"{", "}">>

\* x == k for an int literal k (bool is a subclass of int: False == 0)
PyEqInt(x, k) == x.t \in {"int", "bool", "float"} /\ x.n = k

\* --------------------------------------------------------------- dicts
DictKeys(d) == {d.s[i][1] : i \in 1..Len(d.s)}
DictHas(d, k) == k \in DictKeys(d)
DictIndex(d, k) == CHOOSE i \in 1..Len(d.s) : d.s[i][1] = k
\* d[k]
DictGet(d, k) == d.s[DictIndex(d, k)][2]
\* d.get(k, default)
DictGetOr(d, k, default) == IF DictHas(d, k) THEN DictGet(d, k) ELSE default
\* d[k] = v : an existing key keeps its position, a new key goes last
DictSet(d, k, v) ==
    IF DictHas(d, k)
    THEN PyDict([d.s EXCEPT ![DictIndex(d, k)] = <<k, v>>])
    ELSE PyDict(Append(d.s, <<k, v>>))
\* d.update(e)
RECURSIVE DictUpdateFrom(_, _, _)
DictUpdateFrom(d, e, i) ==
    IF i > Len(e.s) THEN d
    ELSE DictUpdateFrom(DictSet(d, e.s[i][1], e.s[i][2]), e, i + 1)
DictUpdate(d, e) == DictUpdateFrom(d, e, 1)

\* ------------------------------------------------------------ urlencode
SafeChars ==
    {"a","b","c","d","e","f","g","h","i","j","k","l","m","n","o","p","q","r",
     "s","t","u","v","w","x","y","z","A","B","C","D","E","F","G","H","I","J",
     "K","L","M","N","O","P","Q","R","S","T","U","V","W","X","Y","Z",
     "0","1","2","3","4","5","6","7","8","9","_",".","-","~"}

\* the percent-escape of a reserved ASCII character
PercentEscape(c) ==
    CASE c = "&" -> <<"%", "2", "6">>
      [] c = "=" -> <<"%", "3", "D">>
      [] c = "+" -> <<"%", "2", "B">>
      [] c = "%" -> <<"%", "2", "5">>
      [] c = ":" -> <<"%", "3", "A">>
      [] c = "/" -> <<"%", "2", "F">>
      [] OTHER -> <<"%", "3", "F">>

\* a slip in the quoting: spaces replaced, nothing escaped
QuoteChar_NoEscape(c) == IF c = " " THEN <<"+">> ELSE <<c>>

QuoteChar(c) ==
    IF c \in SafeChars THEN <<c>>
    ELSE IF c = " " THEN <<"+">>
    ELSE PercentEscape(c)

\* urllib.parse.quote_plus(s)
RECURSIVE quote_plus(_)
quote_plus(s) ==
    IF Len(s) = 0 THEN <<>> ELSE QuoteChar(Head(s)) \o quote_plus(Tail(s))

\* urllib.parse.urlencode(d): k=v pairs joined by "&" in iteration order
RECURSIVE UrlencodeFrom(_, _)
UrlencodeFrom(d, i) ==
    IF i > Len(d.s) THEN <<>>
    ELSE (IF i > 1 THEN <<"&">> ELSE <<>>)
         \o quote_plus(PyStr(PyStrV(d.s[i][1]))) \o <<"=">>
         \o quote_plus(PyStr(d.s[i][2]))
         \o UrlencodeFrom(d, i + 1)
urlencode(d) == UrlencodeFrom(d, 1)

\* s contains sub as a contiguous substring
Contains(s, sub) ==
    \E i \in 1..(Len(s) - Len(sub) + 1) : SubSeq(s, i, i + Len(sub) - 1) = sub

\* -------------------------------------------------------------- Decimal
CharDigit(c) == CHOOSE i \in 0..9 : DigitChars[i + 1] = c

\* int(s) for a string of decimal digits
RECURSIVE ParseInt(_)
ParseInt(s) ==
    IF Len(s) = 0 THEN 0
    ELSE ParseInt(SubSeq(s, 1, Len(s) - 1)) * 10 + CharDigit(s[Len(s)])

RECURSIVE Pow10(_)
Pow10(k) == IF k = 0 THEN 1 ELSE 10 * Pow10(k - 1)

DotIndex(s) == CHOOSE i \in 1..Len(s) : s[i] = "."
\* str.isdigit() on ASCII text
isdigit(s) == Len(s) > 0 /\ \A i \in 1..Len(s) : \E k \in 1..10 : DigitChars[k] = s[i]
\* an exception object: its class t and its message s
Exception(cls, msg) == [t |-> cls, n |-> 0, s |-> msg]
\* Decimal(s) for unsigned text without exponent: digits with at most one
\* "." and at least one digit. n is the integer part, s the fraction digits
\* exactly as written (Decimal keeps trailing and leading fraction zeros);
\* any other text raises decimal.InvalidOperation, an ArithmeticError
Decimal(s) ==
    LET dots == {i \in 1..Len(s) : s[i] = "."}
        digits == SelectSeq(s, LAMBDA c : c # ".")
    IN IF Cardinality(dots) > 1 \/ ~isdigit(digits)
       THEN Exception("decimal.InvalidOperation", M.ConversionSyntax)
       ELSE IF dots = {}
       THEN [t |-> "decimal", n |-> ParseInt(s), s |-> <<>>]
       ELSE [t |-> "decimal",
             n |-> ParseInt(SubSeq(s, 1, DotIndex(s) - 1)),
             s |-> SubSeq(s, DotIndex(s) + 1, Len(s))]
\* the fraction digits of d read at `width` digits
FracAt(d, width) == ParseInt(d.s) * Pow10(width - Len(d.s))
MaxOf(a, b) == IF a >= b THEN a ELSE b

\* numeric comparison a < b of two Decimals
DecimalLess(a, b) ==
    \/ a.n < b.n
    \/ /\ a.n = b.n
       /\ FracAt(a, MaxOf(Len(a.s), Len(b.s))) < FracAt(b, MaxOf(Len(a.s), Len(b.s)))

\* ------------------------------------------------------- NonceGenerator
\* "{0:06d}".format(i): zero-padded on the left to at least six digits
RECURSIVE PadLeft(_, _)
PadLeft(s, width) == IF Len(s) >= width THEN s ELSE PadLeft(<<"0">> \o s, width)
\* a slip in the format: "{0}" for "{0:06d}"
Format06d_Unpadded(i) == IntStr(i)
Format06d(i) == PadLeft(IntStr(i), 6)

\* NonceGenerator.generate() at the clock reading now = [sec, usec]:
\* sec is int(time.mktime(now.timetuple())), usec is now.microsecond
generate(now) == Decimal(IntStr(now.sec) \o <<".">> \o Format06d(now.usec))

\* --------------------------------------------------- ApiKeyAuthProvider
ApiKeyAuthProvider(api_key, api_secret) ==
    [t |-> "provider", n |-> 0, s |-> <<api_key, api_secret>>]
ProviderKey(p) == p.s[1]
ProviderSecret(p) == p.s[2]

\* hmac.new(key, msg, sha512).hexdigest(), as a symbolic term: equal digests
\* come from equal (key, msg) only, and the digest does not reveal its key
hmac_sha512_hex(key, msg) == [t |-> "hmac", n |-> 0, s |-> <<key, msg>>]

\* get_auth_headers, lines 62-63: the dict the method works on
AuthLocalParams(params) == IF ~Truthy(params) THEN EmptyDict ELSE params
\* whether that dict is the caller's own object
AuthSharesParams(params) == Truthy(params)
\* line 66
AuthInsertNonce(local, nonce) == DictSet(local, K.nonce, PyStrV(PyStr(nonce)))
\* line 71
AuthEncoded(local) == urlencode(local)
\* a slip in the headers: the secret sent along with the key
AuthHeaders_SendsSecret(provider, local) ==
    PyDict(<< <<K.key, PyStrV(ProviderSecret(provider))>>,
              <<K.sign, hmac_sha512_hex(ProviderSecret(provider), AuthEncoded(local))>> >>)
\* lines 74-80
AuthHeaders(provider, local) ==
    PyDict(<< <<K.key, PyStrV(ProviderKey(provider))>>,
              <<K.sign, hmac_sha512_hex(ProviderSecret(provider), AuthEncoded(local))>> >>)

\* a slip in the guard: `or` for `and`
ZaifApiAuthProvider_KeyOrSecret(api_key, api_secret) ==
    IF Truthy(api_key) \/ Truthy(api_secret)
    THEN [t |-> "provider", n |-> 0, s |-> <<api_key.s, api_secret.s>>]
    ELSE None

\* ZaifApi.__init__, lines 644-648
ZaifApiAuthProvider(api_key, api_secret) ==
    IF Truthy(api_key) /\ Truthy(api_secret)
    THEN ApiKeyAuthProvider(api_key.s, api_secret.s)
    ELSE None

\* ------------------------------------------------------------- errors
\* every error of the program is a ValueError; its kind is its message
ValueError(msg) == [t |-> "ValueError", n |-> 0, s |-> msg]
IsPrefix(p, s) == Len(p) <= Len(s) /\ SubSeq(s, 1, Len(p)) = p

\* ------------------------------------------------------- tool arguments
SupportedPairs == {S.btc_jpy, S.eth_jpy, S.xym_jpy}

\* datetime.fromisoformat accepts the string
IsIsoDate(s) == s = In.date_good
\* int(datetime.fromisoformat(s).timestamp()), local zone taken as UTC
IsoTimestamp(s) == 1704067200
\* the same after .replace(hour=23, minute=59, second=59)
IsoEndOfDayTimestamp(s) == IsoTimestamp(s) + 86399

NoArg ==
    [op |-> "", currency_pair |-> None, order_type |-> None, price |-> None,
     quantity |-> None, order_id |-> None, limit |-> None, start_date |-> None,
     end_date |-> None, timeframe |-> None, params |-> None, headers |-> None]

\* a request the handler hands to the transport, or the error it raises
Raise(err) ==
    [raise |-> err, verb |-> "", url |-> <<>>, params |-> None, headers |-> None]
Post(url, params, headers) ==
    [raise |-> None, verb |-> "POST", url |-> url, params |-> params, headers |-> headers]
Get(url, params) ==
    [raise |-> None, verb |-> "GET", url |-> url, params |-> params, headers |-> None]

\* ------------------------------------------------ facade (api/client.py)
\* AccountApi.get_info
AccountApi_get_info == Post(U.tapi, PyDict(<< <<K.method, PyStrV(S.get_info)>> >>), None)

\* TradeApi.open_order
TradeApi_open_order(currency_pair, action, price, amount) ==
    Post(U.tapi,
         PyDict(<< <<K.currency_pair, currency_pair>>, <<K.action, action>>,
                   <<K.price, PyFloat(price.n)>>, <<K.amount, PyFloat(amount.n)>>,
                   <<K.method, PyStrV(S.trade)>> >>),
         None)

\* params[k] = v when cond, for the facade's optional parameters
SetIf(cond, d, k, v) == IF cond THEN DictSet(d, k, v) ELSE d

\* TradeApi.cancel_order (is_token is never passed by the tool)
TradeApi_cancel_order(order_id, currency_pair) ==
    Post(U.tapi,
         DictSet(SetIf(Truthy(currency_pair),
                       PyDict(<< <<K.order_id, order_id>> >>),
                       K.currency_pair, currency_pair),
                 K.method, PyStrV(S.cancel_order)),
         None)

\* TradeApi.get_active_orders
TradeApi_get_active_orders(currency_pair) ==
    Post(U.tapi,
         DictSet(SetIf(Truthy(currency_pair), EmptyDict, K.currency_pair, currency_pair),
                 K.method, PyStrV(S.active_orders)),
         None)

\* TradeApi.get_trade_history
TradeApi_get_trade_history(currency_pair, count, from_timestamp, end_timestamp) ==
    Post(U.tapi,
         DictSet(
           SetIf(end_timestamp.t # "none",
             SetIf(from_timestamp.t # "none",
               SetIf(count.t # "none",
                 SetIf(Truthy(currency_pair), EmptyDict, K.currency_pair, currency_pair),
                 K.count, count),
               K.since, from_timestamp),
             K.end, end_timestamp),
           K.method, PyStrV(S.trade_history)),
         None)

\* MarketApi.get_ticker, get_depth, get_currency_pairs("all")
MarketApi_get_ticker(currency_pair) == Get(U.api \o U.ticker \o currency_pair.s, None)
MarketApi_get_depth(currency_pair) == Get(U.api \o U.depth \o currency_pair.s, None)
MarketApi_get_currency_pairs == Get(U.api \o U.pairs_all, None)

\* ChartApi.get_ohlc
ChartApi_get_ohlc(currency_pair, period, from_ts, to_ts) ==
    Get(U.chart \o U.history,
        PyDict(<< <<K.symbol, currency_pair>>, <<K.resolution, period>>,
                  <<K.from, PyInt(from_ts)>>, <<K.to, PyInt(to_ts)>> >>))

\* --------------------------------------------------- tool handlers (tools/)
NoAuthTool == Raise(ValueError(M.NoAuthTool))

get_account_balance(provider, a) ==
    IF ~Truthy(provider) THEN NoAuthTool ELSE AccountApi_get_info

place_order(provider, a) ==
    IF ~Truthy(provider) THEN NoAuthTool
    ELSE TradeApi_open_order(a.currency_pair, a.order_type, a.price, a.quantity)

cancel_order(provider, a) ==
    IF ~Truthy(provider) THEN NoAuthTool
    ELSE TradeApi_cancel_order(a.order_id, a.currency_pair)

get_open_orders(provider, a) ==
    IF ~Truthy(provider) THEN NoAuthTool
    ELSE TradeApi_get_active_orders(a.currency_pair)

\* a slip in the handler: the allow-list check is left out
get_trade_executions_NoPairCheck(provider, a) ==
    IF ~Truthy(provider) THEN NoAuthTool
    ELSE TradeApi_get_trade_history(a.currency_pair, a.limit, None, None)

\* a slip in the handler: the arguments are checked before the credentials
get_trade_executions_ArgumentsFirst(provider, a) ==
    IF a.currency_pair.t # "none" /\ a.currency_pair.s \notin SupportedPairs
    THEN Raise(ValueError(M.UnsupportedPair \o PyStr(a.currency_pair)))
    ELSE IF Truthy(a.start_date) /\ ~IsIsoDate(a.start_date.s)
    THEN Raise(ValueError(M.BadIso \o <<"'">> \o a.start_date.s \o <<"'">>))
    ELSE IF Truthy(a.end_date) /\ ~IsIsoDate(a.end_date.s)
    THEN Raise(ValueError(M.BadIso \o <<"'">> \o a.end_date.s \o <<"'">>))
    ELSE IF ~Truthy(provider) THEN NoAuthTool
    ELSE TradeApi_get_trade_history(
           a.currency_pair, a.limit,
           IF Truthy(a.start_date) THEN PyInt(IsoTimestamp(a.start_date.s)) ELSE None,
           IF Truthy(a.end_date) THEN PyInt(IsoEndOfDayTimestamp(a.end_date.s)) ELSE None)

\* a slip in the handler: a date that does not parse is treated as no date
get_trade_executions_DatesUnchecked(provider, a) ==
    IF ~Truthy(provider) THEN NoAuthTool
    ELSE IF a.currency_pair.t # "none" /\ a.currency_pair.s \notin SupportedPairs
    THEN Raise(ValueError(M.UnsupportedPair \o PyStr(a.currency_pair)))
    ELSE TradeApi_get_trade_history(
           a.currency_pair, a.limit,
           IF Truthy(a.start_date) /\ IsIsoDate(a.start_date.s)
           THEN PyInt(IsoTimestamp(a.start_date.s)) ELSE None,
           IF Truthy(a.end_date) /\ IsIsoDate(a.end_date.s)
           THEN PyInt(IsoEndOfDayTimestamp(a.end_date.s)) ELSE None)

get_trade_executions(provider, a) ==
    IF ~Truthy(provider) THEN NoAuthTool
    ELSE IF a.currency_pair.t # "none" /\ a.currency_pair.s \notin SupportedPairs
    THEN Raise(ValueError(M.UnsupportedPair \o PyStr(a.currency_pair)))
    ELSE IF Truthy(a.start_date) /\ ~IsIsoDate(a.start_date.s)
    THEN Raise(ValueError(M.BadIso \o <<"'">> \o a.start_date.s \o <<"'">>))
    ELSE IF Truthy(a.end_date) /\ ~IsIsoDate(a.end_date.s)
    THEN Raise(ValueError(M.BadIso \o <<"'">> \o a.end_date.s \o <<"'">>))
    ELSE TradeApi_get_trade_history(
           a.currency_pair, a.limit,
           IF Truthy(a.start_date) THEN PyInt(IsoTimestamp(a.start_date.s)) ELSE None,
           IF Truthy(a.end_date) THEN PyInt(IsoEndOfDayTimestamp(a.end_date.s)) ELSE None)

get_ticker(provider, a) == MarketApi_get_ticker(a.currency_pair)
get_market_depth(provider, a) == MarketApi_get_depth(a.currency_pair)
get_currency_pairs(provider, a) == MarketApi_get_currency_pairs

get_price_chart(provider, a) ==
    IF ~IsIsoDate(a.start_date.s) \/ ~IsIsoDate(a.end_date.s)
    THEN Raise(ValueError(M.BadDateChart))
    ELSE ChartApi_get_ohlc(a.currency_pair, a.timeframe,
                           IsoTimestamp(a.start_date.s), IsoTimestamp(a.end_date.s))

\* a direct call HttpClient.post(url, params, headers)
http_post(provider, a) == Post(U.tapi, a.params, a.headers)

AuthenticatedTools ==
    {"get_account_balance", "place_order", "cancel_order", "get_open_orders",
     "get_trade_executions"}

\* the handler registered under the name a.op
Handler(provider, a) ==
    CASE a.op = "get_account_balance" -> get_account_balance(provider, a)
      [] a.op = "place_order" -> place_order(provider, a)
      [] a.op = "cancel_order" -> cancel_order(provider, a)
      [] a.op = "get_open_orders" -> get_open_orders(provider, a)
      [] a.op = "get_trade_executions" -> get_trade_executions(provider, a)
      [] a.op = "get_ticker" -> get_ticker(provider, a)
      [] a.op = "get_market_depth" -> get_market_depth(provider, a)
      [] a.op = "get_currency_pairs" -> get_currency_pairs(provider, a)
      [] a.op = "get_price_chart" -> get_price_chart(provider, a)
      [] a.op = "http_post" -> http_post(provider, a)

\* ------------------------------------------------------------ inputs
Threads == {1, 2}
\* the thread of the single-threaded request/response model
MainThreads == {1}

Secs == {1700000000, 1700000001}
USecs == {9, 100000}
Readings == [sec : Secs, usec : USecs]

\* environment values ZAIF_API_KEY / ZAIF_API_SECRET: unset, empty or set
ApiKeys == {None, PyStrV(<<>>), PyStrV(In.KEY1)}
ApiSecrets == {None, PyStrV(<<>>), PyStrV(In.SEC1)}
\* the secret of the second run, which differs from the first in the secret only
AltSecret(api_secret) == IF Truthy(api_secret) THEN PyStrV(In.SEC2) ELSE api_secret

PairArgs == {PyStrV(S.btc_jpy), PyStrV(In.doge_jpy)}
OptPairArgs == PairArgs \cup {None}
DateArgs == {PyStrV(<<>>), PyStrV(In.date_good), PyStrV(In.date_bad)}

PostParamArgs ==
    {None, EmptyDict,
     PyDict(<< <<K.method, PyStrV(S.get_info)>> >>),
     PyDict(<< <<In.a, PyStrV(In.x_y)>> >>)}
PostHeaderArgs == {None, EmptyDict, PyDict(<< <<In.xtest, PyStrV(In.x)>> >>)}

ToolArgs ==
    {[NoArg EXCEPT !.op = "get_account_balance"]}
    \cup {[NoArg EXCEPT !.op = "place_order", !.currency_pair = p,
                        !.order_type = PyStrV(In.bid), !.price = PyFloat(100),
                        !.quantity = PyFloat(2)] : p \in PairArgs}
    \cup {[NoArg EXCEPT !.op = "cancel_order", !.order_id = PyInt(7),
                        !.currency_pair = p] : p \in OptPairArgs}
    \cup {[NoArg EXCEPT !.op = "get_open_orders", !.currency_pair = p] : p \in OptPairArgs}
    \cup {[NoArg EXCEPT !.op = "get_trade_executions", !.currency_pair = p,
                        !.limit = PyInt(20), !.start_date = d, !.end_date = PyStrV(<<>>)]
            : p \in OptPairArgs, d \in DateArgs}
    \cup {[NoArg EXCEPT !.op = "get_trade_executions", !.currency_pair = None,
                        !.limit = PyInt(20), !.start_date = PyStrV(In.date_good), !.end_date = d]
            : d \in DateArgs}
    \cup {[NoArg EXCEPT !.op = "get_ticker", !.currency_pair = p] : p \in PairArgs}
    \cup {[NoArg EXCEPT !.op = "get_market_depth", !.currency_pair = p] : p \in PairArgs}
    \cup {[NoArg EXCEPT !.op = "get_currency_pairs"]}
    \cup {[NoArg EXCEPT !.op = "get_price_chart", !.currency_pair = PyStrV(S.btc_jpy),
                        !.timeframe = PyStrV(In.m60), !.start_date = d,
                        !.end_date = PyStrV(In.date_good)] : d \in DateArgs}
    \cup {[NoArg EXCEPT !.op = "http_post", !.params = p, !.headers = h]
            : p \in PostParamArgs, h \in PostHeaderArgs}

\* the invocations issued in parallel in the concurrent model
ConcurrentArgs ==
    {[NoArg EXCEPT !.op = "get_account_balance"],
     [NoArg EXCEPT !.op = "get_open_orders", !.currency_pair = PyStrV(S.btc_jpy)]}

\* what the transport does with a request: an exception of the requests
\* library, a body that is not JSON, or a decoded JSON body
JsonBodies ==
    {PyDict(s) : s \in
       {<<>>,
        << <<K.success, PyInt(0)>>, <<K.error, PyStrV(In.bad_nonce)>> >>,
        << <<K.success, PyInt(0)>> >>,
        << <<K.success, PyBool(FALSE)>>, <<K.error, PyStrV(In.no_permission)>> >>,
        << <<K.success, PyInt(0)>>, <<K.error, PyStrV(In.bad_nonce)>>,
           <<K.return, PyObj(<<"r">>)>> >>,
        << <<K.success, PyInt(1)>>, <<K.return, PyObj(<<"r">>)>> >>,
        << <<K.success, PyInt(1)>>, <<K.return, None>> >>,
        << <<K.success, PyInt(1)>>, <<K.error, PyStrV(In.bad_nonce)>> >>,
        << <<K.return, PyObj(<<"r">>)>> >>,
        << <<K.success, PyStrV(<<"0">>)>>, <<K.return, PyObj(<<"r">>)>> >>,
        << <<K.success, PyBool(TRUE)>> >>}}
    \cup {[t |-> "list", n |-> 0, s |-> <<>>]}

Outcomes ==
    {[kind |-> k, status |-> 0, body |-> None]
        : k \in {"ConnectionError", "Timeout", "TooManyRedirects",
                  "requests.JSONDecodeError", "json.JSONDecodeError", "RuntimeError"}}
    \cup {[kind |-> "HTTPError", status |-> 500, body |-> None]}
    \cup {[kind |-> "ok", status |-> 200, body |-> b] : b \in JsonBodies}

ConcurrentOutcomes ==
    {[kind |-> "ok", status |-> 200,
      body |-> PyDict(<< <<K.success, PyInt(1)>>, <<K.return, PyObj(<<"r">>)>> >>)]}

\* ------------------------------------------------- HttpClient results
Raised(err) == [error |-> err, returned |-> FALSE, data |-> None]
Returned(v) == [error |-> None, returned |-> TRUE, data |-> v]

\* a slip in the except clauses: the library's exception is let through
TransportError_Unwrapped(o) == Exception(o.kind, M.RequestError)

\* the except clauses shared by HttpClient.get and HttpClient.post.
\* response.json() raises requests' JSONDecodeError (a RequestException)
\* or, with an older requests, the json module's: that one is a subclass of
\* ValueError and `except ValueError: raise` lets it through as it is.
\* Any other exception is wrapped by `except Exception`.
TransportError(o) ==
    CASE o.kind = "HTTPError" -> ValueError(M.HttpError \o IntStr(o.status))
      [] o.kind = "ConnectionError" -> ValueError(M.ConnectionError)
      [] o.kind = "Timeout" -> ValueError(M.TimeoutError)
      [] o.kind = "TooManyRedirects" -> ValueError(M.RequestError \o M.TooManyRedirects)
      [] o.kind = "requests.JSONDecodeError" -> ValueError(M.RequestError \o M.JsonDecode)
      [] o.kind = "json.JSONDecodeError" -> Exception("json.JSONDecodeError", M.JsonDecode)
      [] OTHER -> ValueError(M.UnexpectedError \o In.boom)

\* HttpClient.get, lines 113-128
HttpGetResult(o) ==
    IF o.kind # "ok" THEN Raised(TransportError(o)) ELSE Returned(o.body)

\* a slip in the message: the body's `error` is not looked up
EnvelopeErrorMessage_NoLookup(result) == M.ApiError \o M.UnknownError

\* the message of the API error raised for a body whose success is 0
EnvelopeErrorMessage(result) ==
    M.ApiError \o PyStr(DictGetOr(result, K.error, PyStrV(M.UnknownError)))

\* a slip in the unwrapping: the whole body is returned
Envelope_WholeBody(result) ==
    IF result.t # "dict"
    THEN Raised(ValueError(M.UnexpectedError \o M.NoGet))
    ELSE IF PyEqInt(DictGetOr(result, K.success, None), 0)
    THEN Raised(ValueError(EnvelopeErrorMessage(result)))
    ELSE Returned(result)

\* HttpClient.post, lines 174-185, on the decoded body `result`
Envelope(result) ==
    IF result.t # "dict"
    THEN Raised(ValueError(M.UnexpectedError \o M.NoGet))
    ELSE IF PyEqInt(DictGetOr(result, K.success, None), 0)
    THEN Raised(ValueError(EnvelopeErrorMessage(result)))
    ELSE IF DictHas(result, K.return)
    THEN Returned(DictGet(result, K.return))
    ELSE Returned(result)

\* HttpClient.post, lines 169-197
HttpPostResult(o) ==
    IF o.kind # "ok" THEN Raised(TransportError(o)) ELSE Envelope(o.body)

\* HttpClient.post, lines 159-162
MergeHeaders(headers, auth_headers) ==
    IF Truthy(headers) THEN DictUpdate(headers, auth_headers) ELSE auth_headers

\* ------------------------------------------------------------- state
VARIABLES
    env,            \* ZAIF_API_KEY and ZAIF_API_SECRET as read at startup
    auth_provider,  \* ZaifApi.http.auth_provider
    alt_provider,   \* the provider of the run that differs in the secret only
    clock,          \* the reading datetime.now() returns
    last_gen,       \* reading and value of the last nonce generated
    last_sent,      \* the nonce carried by the last signed request transmitted
    calls,          \* invocations started in this run
    inv,            \* per thread, the invocation in progress
    sg,             \* two signings side by side (signature properties)
    nz              \* one normalizer run: wire form, parsed record, round trip

vars == <<env, auth_provider, alt_provider, clock, last_gen, last_sent, calls, inv, sg, nz>>

NoGen == [reading |-> [sec |-> 0, usec |-> 0], nonce |-> None]

Idle ==
    [pc |-> "idle", arg |-> NoArg, verb |-> "", url |-> <<>>,
     params |-> None, headers |-> None, local |-> None, shared |-> FALSE,
     body |-> <<>>, signed |-> <<>>, alt_headers |-> None, alt_body |-> <<>>,
     nonce |-> None, reading |-> [sec |-> 0, usec |-> 0],
     prev_gen |-> NoGen, prev_sent |-> None, trace |-> <<>>,
     transport_calls |-> 0, outcome |-> "", response |-> None,
     error |-> None, returned |-> FALSE, data |-> None]

\* no normalizer run
NoNormalize ==
    [pc |-> "idle", cls |-> "", utcoffset |-> 0, src |-> None, wire |-> None,
     parsed |-> Raised(None), rewire |-> None, reparsed |-> Raised(None),
     result |-> Raised(None)]

NoSign ==
    [pc |-> "idle", provider |-> None, a |-> None, b |-> None,
     nonce_a |-> None, nonce_b |-> None, sig_a |-> None, sig_b |-> None]

InitEnv ==
    /\ env \in [api_key : ApiKeys, api_secret : ApiSecrets]
    /\ auth_provider = ZaifApiAuthProvider(env.api_key, env.api_secret)
    /\ alt_provider = ZaifApiAuthProvider(env.api_key, AltSecret(env.api_secret))
    /\ clock \in Readings
    /\ last_gen = NoGen
    /\ last_sent = None
    /\ calls = 0
    /\ inv = [t \in Threads |-> Idle]

Init == InitEnv /\ sg = NoSign /\ nz = NoNormalize

\* the wall clock moves to another reading (forward, or back on a rollback)
Tick ==
    /\ \E r \in Readings : r # clock /\ clock' = r
    /\ UNCHANGED <<env, auth_provider, alt_provider, last_gen, last_sent, calls, inv, sg, nz>>

\* The runtime calls a handler.  The handler checks its arguments, the facade
\* assembles the parameters, and HttpClient.post checks the credentials
\* (line 147) and replaces a missing or empty mapping (lines 152-153).
Invoke(t, args) ==
    /\ inv[t].pc = "idle"
    /\ calls < MaxCalls
    /\ \E a \in args :
         LET plan == Handler(auth_provider, a) IN
         inv' = [inv EXCEPT ![t] =
           IF plan.raise.t # "none"
           THEN [Idle EXCEPT !.pc = "done", !.arg = a, !.error = plan.raise]
           ELSE IF plan.verb = "GET"
           THEN [Idle EXCEPT !.pc = "send", !.arg = a, !.verb = "GET",
                             !.url = plan.url, !.params = plan.params]
           ELSE IF ~Truthy(auth_provider)
           THEN [Idle EXCEPT !.pc = "done", !.arg = a, !.verb = "POST",
                             !.error = ValueError(M.NoAuthPost)]
           ELSE [Idle EXCEPT !.pc = "auth", !.arg = a, !.verb = "POST",
                             !.url = plan.url,
                             !.params = IF ~Truthy(plan.params) THEN EmptyDict
                                        ELSE plan.params,
                             !.headers = plan.headers,
                             !.trace = <<"params">>]]
    /\ calls' = calls + 1
    /\ UNCHANGED <<env, auth_provider, alt_provider, clock, last_gen, last_sent, sg, nz>>

\* a slip in the signer: the generator is called twice
PostNonce_Twice(t) ==
    /\ inv[t].pc = "auth"
    /\ LET c == inv[t]
           nonce == generate(clock)
           local == AuthInsertNonce(AuthLocalParams(c.params), nonce)
       IN /\ inv' = [inv EXCEPT ![t] =
                 [c EXCEPT !.pc = "sign",
                           !.shared = AuthSharesParams(c.params),
                           !.local = local,
                           !.params = IF AuthSharesParams(c.params) THEN local ELSE @,
                           !.nonce = nonce,
                           !.reading = clock,
                           !.prev_gen = last_gen,
                           !.trace = Append(Append(@, "nonce"), "nonce")]]
          /\ last_gen' = [reading |-> clock, nonce |-> nonce]
    /\ UNCHANGED <<env, auth_provider, alt_provider, clock, last_sent, calls, sg, nz>>

\* get_auth_headers, lines 62-66: pick the working dict, read the clock,
\* insert the nonce
PostNonce(t) ==
    /\ inv[t].pc = "auth"
    /\ LET c == inv[t]
           nonce == generate(clock)
           local == AuthInsertNonce(AuthLocalParams(c.params), nonce)
       IN /\ inv' = [inv EXCEPT ![t] =
                 [c EXCEPT !.pc = "sign",
                           !.shared = AuthSharesParams(c.params),
                           !.local = local,
                           !.params = IF AuthSharesParams(c.params) THEN local ELSE @,
                           !.nonce = nonce,
                           !.reading = clock,
                           !.prev_gen = last_gen,
                           !.trace = Append(@, "nonce")]]
          /\ last_gen' = [reading |-> clock, nonce |-> nonce]
    /\ UNCHANGED <<env, auth_provider, alt_provider, clock, last_sent, calls, sg, nz>>

\* get_auth_headers, lines 71-80, then HttpClient.post, lines 159-167
PostSign(t) ==
    /\ inv[t].pc = "sign"
    /\ LET c == inv[t] IN
       inv' = [inv EXCEPT ![t] =
         [c EXCEPT !.pc = "send",
                   !.signed = AuthEncoded(c.local),
                   !.headers = MergeHeaders(c.headers, AuthHeaders(auth_provider, c.local)),
                   !.alt_headers = MergeHeaders(c.headers, AuthHeaders(alt_provider, c.local)),
                   !.body = urlencode(c.params),
                   !.alt_body = urlencode(c.params),
                   !.trace = Append(@, "sign")]]
    /\ UNCHANGED <<env, auth_provider, alt_provider, clock, last_gen, last_sent, calls, sg, nz>>

\* the nonce a request carries in its body, None when it carries none
CarriedNonce(c) ==
    IF c.verb = "POST" /\ DictHas(c.params, K.nonce)
    THEN Decimal(DictGet(c.params, K.nonce).s) ELSE None

\* requests.get / requests.post hands the request to the network
HttpSend(t) ==
    /\ inv[t].pc = "send"
    /\ LET c == inv[t] IN
       /\ inv' = [inv EXCEPT ![t] =
            [c EXCEPT !.pc = "wait",
                      !.transport_calls = @ + 1,
                      !.prev_sent = last_sent,
                      !.trace = Append(@, "send")]]
       /\ last_sent' = IF CarriedNonce(c).t # "none" THEN CarriedNonce(c) ELSE last_sent
    /\ UNCHANGED <<env, auth_provider, alt_provider, clock, last_gen, calls, sg, nz>>

\* a slip in the response handling: a failed call is sent again
HttpRecv_RetryOnFailure(t, outcomes) ==
    /\ inv[t].pc = "wait"
    /\ \E o \in outcomes :
         LET c == inv[t]
             r == IF c.verb = "POST" THEN HttpPostResult(o) ELSE HttpGetResult(o)
         IN inv' = [inv EXCEPT ![t] =
              [c EXCEPT !.pc = IF r.returned THEN "done" ELSE "send",
                        !.outcome = o.kind, !.response = o.body,
                        !.error = r.error, !.returned = r.returned, !.data = r.data]]
    /\ UNCHANGED <<env, auth_provider, alt_provider, clock, last_gen, last_sent, calls, sg, nz>>

\* the transport call returns or raises; get/post turn it into their result
HttpRecv(t, outcomes) ==
    /\ inv[t].pc = "wait"
    /\ \E o \in outcomes :
         LET c == inv[t]
             r == IF c.verb = "POST" THEN HttpPostResult(o) ELSE HttpGetResult(o)
         IN inv' = [inv EXCEPT ![t] =
              [c EXCEPT !.pc = "done", !.outcome = o.kind, !.response = o.body,
                        !.error = r.error, !.returned = r.returned, !.data = r.data]]
    /\ UNCHANGED <<env, auth_provider, alt_provider, clock, last_gen, last_sent, calls, sg, nz>>

\* a slip in the handler: the record of the invocation is kept for the next
Return_KeepsRecord(t) ==
    /\ inv[t].pc = "done"
    /\ inv' = [inv EXCEPT ![t] = [Idle EXCEPT !.data = inv[t].data,
                                              !.returned = inv[t].returned]]
    /\ UNCHANGED <<env, auth_provider, alt_provider, clock, last_gen, last_sent, calls, sg, nz>>

\* the handler's result or error goes back to the runtime
Return(t) ==
    /\ inv[t].pc = "done"
    /\ inv' = [inv EXCEPT ![t] = Idle]
    /\ UNCHANGED <<env, auth_provider, alt_provider, clock, last_gen, last_sent, calls, sg, nz>>

Next ==
    \/ Tick
    \/ \E t \in MainThreads : Invoke(t, ToolArgs)
    \/ \E t \in MainThreads : PostNonce(t)
    \/ \E t \in MainThreads : PostSign(t)
    \/ \E t \in MainThreads : HttpSend(t)
    \/ \E t \in MainThreads : HttpRecv(t, Outcomes)
    \/ \E t \in MainThreads : Return(t)

Spec == Init /\ [][Next]_vars

\* the order of clock readings: earlier second, or same second and earlier
\* microsecond
ReadingLess(r1, r2) == r1.sec < r2.sec \/ (r1.sec = r2.sec /\ r1.usec < r2.usec)

\* the wall clock advances
TickForward ==
    /\ \E r \in Readings : ReadingLess(clock, r) /\ clock' = r
    /\ UNCHANGED <<env, auth_provider, alt_provider, last_gen, last_sent, calls, inv, sg, nz>>

\* invocations issued in parallel by the hosting runtime, one per thread
NextConcurrent ==
    \/ TickForward
    \/ \E t \in Threads : Invoke(t, ConcurrentArgs)
    \/ \E t \in Threads : PostNonce(t)
    \/ \E t \in Threads : PostSign(t)
    \/ \E t \in Threads : HttpSend(t)
    \/ \E t \in Threads : HttpRecv(t, ConcurrentOutcomes)
    \/ \E t \in Threads : Return(t)

SpecConcurrent == Init /\ [][NextConcurrent]_vars

\* ------------------------------------------ two signings side by side
\* ApiKeyAuthProvider.get_auth_headers(params) as one call at reading now:
\* the headers returned and the dict that was signed
get_auth_headers(provider, params, now) ==
    LET local == AuthInsertNonce(AuthLocalParams(params), generate(now))
    IN [headers |-> AuthHeaders(provider, local), local |-> local]

SignValueArgs == {PyStrV(In.x), PyStrV(In.x_y), PyStrV(In.xplusy)}
SignCountArgs == {PyInt(1), PyInt(12)}
SignParamArgs ==
    {PyDict(<< <<In.a, v>>, <<K.count, n>> >>) : v \in SignValueArgs, n \in SignCountArgs}
    \cup {PyDict(<< <<In.a, v>> >>) : v \in SignValueArgs}
    \cup {None, EmptyDict}

InitSign ==
    /\ InitEnv
    /\ \E a \in SignParamArgs, b \in SignParamArgs :
         sg = [NoSign EXCEPT !.pc = "a", !.provider = auth_provider, !.a = a, !.b = b]
    /\ nz = NoNormalize

\* the first call of get_auth_headers
SignFirst ==
    /\ sg.pc = "a"
    /\ Truthy(sg.provider)
    /\ LET r == get_auth_headers(sg.provider, sg.a, clock) IN
       sg' = [sg EXCEPT !.pc = "b", !.a = r.local,
                        !.nonce_a = DictGet(r.local, K.nonce),
                        !.sig_a = DictGet(r.headers, K.sign)]
    /\ UNCHANGED <<env, auth_provider, alt_provider, clock, last_gen, last_sent, calls, inv, nz>>

\* the second call of get_auth_headers
SignSecond ==
    /\ sg.pc = "b"
    /\ LET r == get_auth_headers(sg.provider, sg.b, clock) IN
       sg' = [sg EXCEPT !.pc = "done", !.b = r.local,
                        !.nonce_b = DictGet(r.local, K.nonce),
                        !.sig_b = DictGet(r.headers, K.sign)]
    /\ UNCHANGED <<env, auth_provider, alt_provider, clock, last_gen, last_sent, calls, inv, nz>>

NextSign == Tick \/ SignFirst \/ SignSecond

SpecSign == InitSign /\ [][NextSign]_vars
\* ========================================================== normalizers
\* A dataclass instance is a record whose field t names its class.

\* whether a computed value is a raised exception
IsException(x) ==
    x.t \in {"ValueError", "TypeError", "KeyError", "AttributeError", "IndexError",
             "decimal.InvalidOperation", "json.JSONDecodeError"}

\* the exception raised first when vals are computed in order, else None
FirstRaised(vals) ==
    IF \E i \in 1..Len(vals) : IsException(vals[i])
    THEN vals[CHOOSE i \in 1..Len(vals) :
                 IsException(vals[i]) /\ \A j \in 1..(i - 1) : ~IsException(vals[j])]
    ELSE None

\* int(x): an int, a bool or a float converts, and so does a str of ASCII
\* digits; any other str raises ValueError, any other type TypeError
int(x) ==
    CASE x.t \in {"int", "bool", "float"} -> PyInt(x.n)
      [] x.t = "str" ->
            IF isdigit(x.s) THEN PyInt(ParseInt(x.s))
            ELSE Exception("ValueError", M.BadInt)
      [] OTHER -> Exception("TypeError", M.BadIntType)

\* item.get(key, default) on a decoded JSON value: only a mapping has .get
ItemGet(item, key, default) ==
    IF item.t = "dict" THEN DictGetOr(item, key, default)
    ELSE Exception("AttributeError", M.NoAttrGet)

\* a slip in the conversion: the text goes through a binary float, whose
\* exact expansion differs from the text unless the fraction is dyadic
DecimalOfStr_ViaFloat(v) ==
    LET d == Decimal(PyStr(v)) IN
    IF IsException(d) \/ Len(d.s) = 0 \/ d.s = <<"5">> THEN d
    ELSE [d EXCEPT !.s = @ \o <<"0", "0", "0", "5">>]

\* Decimal(str(v)); a raised v is passed on
DecimalOfStr(v) == IF IsException(v) THEN v ELSE Decimal(PyStr(v))

\* datetime.fromtimestamp(ts).isoformat() for ts >= 0 in the zone whose
\* local time is UTC + utcoffset seconds: "YYYY-MM-DDTHH:MM:SS"
fromtimestamp_isoformat(ts, utcoffset) ==
    LET local == ts + utcoffset
        secs == local % 86400
        z == (local \div 86400) + 719468
        era == z \div 146097
        doe == z % 146097
        yoe == (doe - (doe \div 1460) + (doe \div 36524) - (doe \div 146096)) \div 365
        doy == doe - (365 * yoe + (yoe \div 4) - (yoe \div 100))
        mp == (5 * doy + 2) \div 153
        day == doy - ((153 * mp + 2) \div 5) + 1
        month == IF mp < 10 THEN mp + 3 ELSE mp - 9
        year == yoe + era * 400 + (IF month <= 2 THEN 1 ELSE 0)
    IN PadLeft(IntStr(year), 4) \o <<"-">> \o PadLeft(IntStr(month), 2) \o <<"-">>
       \o PadLeft(IntStr(day), 2) \o <<"T">> \o PadLeft(IntStr(secs \div 3600), 2)
       \o <<":">> \o PadLeft(IntStr((secs % 3600) \div 60), 2)
       \o <<":">> \o PadLeft(IntStr(secs % 60), 2)

\* datetime.fromtimestamp(int(timestamp)).isoformat(); a raised value is
\* passed on
IsoOfTimestamp(timestamp, utcoffset) ==
    IF IsException(timestamp) THEN timestamp
    ELSE IF IsException(int(timestamp)) THEN int(timestamp)
    ELSE PyStrV(fromtimestamp_isoformat(int(timestamp).n, utcoffset))

\* models/trade.py lines 106-118: the OpenOrder built from one entry
OpenOrder(order_data, utcoffset) ==
    LET currency_pair == ItemGet(order_data, K.currency_pair, PyStrV(<<>>))
        order_type == ItemGet(order_data, K.action, PyStrV(<<>>))
        price == DecimalOfStr(ItemGet(order_data, K.price, PyStrV(S.zero)))
        quantity == DecimalOfStr(ItemGet(order_data, K.amount, PyStrV(S.zero)))
        order_time == IsoOfTimestamp(ItemGet(order_data, K.timestamp, PyInt(0)), utcoffset)
        raised == FirstRaised(<<currency_pair, order_type, price, quantity, order_time>>)
    IN IF raised # None THEN raised
       ELSE [t |-> "OpenOrder", currency_pair |-> currency_pair,
             order_type |-> order_type, price |-> price, quantity |-> quantity,
             order_time |-> order_time]

\* OpenOrderList.from_dict, the loop from entry i on: only keys that are
\* digit strings are read, and nothing is caught
RECURSIVE OpenOrderList_from_dict(_, _, _, _)
OpenOrderList_from_dict(data, utcoffset, i, open_orders) ==
    IF i > Len(data.s)
    THEN Returned([t |-> "OpenOrderList", open_orders |-> open_orders])
    ELSE IF ~isdigit(data.s[i][1])
    THEN OpenOrderList_from_dict(data, utcoffset, i + 1, open_orders)
    ELSE LET order == OpenOrder(data.s[i][2], utcoffset) IN
         IF IsException(order) THEN Raised(order)
         ELSE OpenOrderList_from_dict(data, utcoffset, i + 1,
                  DictSet(open_orders, ParseInt(data.s[i][1]), order))

\* models/trade.py lines 248-256
TradeSide(your_action) ==
    CASE your_action = PyStrV(S.both) -> S.self
      [] your_action = PyStrV(S.bid) -> S.buy
      [] your_action = PyStrV(S.ask) -> S.sell
      [] OTHER -> S.unknown

\* a slip in the table: the maker and taker rows exchanged
MarketRole_Swapped(action, your_action) ==
    IF your_action = PyStrV(S.both) THEN S.both
    ELSE IF your_action \in {PyStrV(S.bid), PyStrV(S.ask)} /\ action = your_action
    THEN S.maker
    ELSE IF {action, your_action} = {PyStrV(S.bid), PyStrV(S.ask)}
    THEN S.taker
    ELSE S.unknown

\* a slip in the table: maker for every action that is not the caller's side
MarketRole_MakerOtherwise(action, your_action) ==
    IF your_action = PyStrV(S.both) THEN S.both
    ELSE IF your_action \notin {PyStrV(S.bid), PyStrV(S.ask)} THEN S.unknown
    ELSE IF action = your_action THEN S.taker
    ELSE S.maker

\* models/trade.py lines 259-270
MarketRole(action, your_action) ==
    IF your_action = PyStrV(S.both) THEN S.both
    ELSE IF \/ (action = PyStrV(S.bid) /\ your_action = PyStrV(S.bid))
            \/ (action = PyStrV(S.ask) /\ your_action = PyStrV(S.ask))
    THEN S.taker
    ELSE IF \/ (action = PyStrV(S.bid) /\ your_action = PyStrV(S.ask))
            \/ (action = PyStrV(S.ask) /\ your_action = PyStrV(S.bid))
    THEN S.maker
    ELSE S.unknown

\* `timestamp is not None and timestamp != ''`
HasTimestamp(timestamp) == timestamp # None /\ timestamp # PyStrV(<<>>)

\* models/trade.py lines 236-283: the TradeExecution built from one entry
TradeExecution(trade_id, item, utcoffset) ==
    LET trade_id_int == int(PyStrV(trade_id))
        timestamp == DictGetOr(item, K.timestamp, None)
        execution_time ==
            IF HasTimestamp(timestamp) THEN IsoOfTimestamp(timestamp, utcoffset) ELSE None
        action == DictGetOr(item, K.action, PyStrV(<<>>))
        your_action == DictGetOr(item, K.your_action, PyStrV(<<>>))
        price == DecimalOfStr(DictGetOr(item, K.price, PyStrV(S.zero)))
        quantity == DecimalOfStr(DictGetOr(item, K.amount, PyStrV(S.zero)))
        fee_amount == DecimalOfStr(DictGetOr(item, K.fee, PyStrV(S.zero)))
        raised == FirstRaised(<<trade_id_int, execution_time, price, quantity, fee_amount>>)
    IN IF raised # None THEN raised
       ELSE [t |-> "TradeExecution", execution_id |-> trade_id_int.n,
             currency_pair |-> DictGetOr(item, K.currency_pair, PyStrV(<<>>)),
             trade_side |-> PyStrV(TradeSide(your_action)),
             price |-> price, quantity |-> quantity, fee_amount |-> fee_amount,
             market_role |-> PyStrV(MarketRole(action, your_action)),
             execution_time |-> execution_time]

\* models/account.py lines 267-280 and 366-381: the DepositHistoryItem or
\* WithdrawalHistoryItem built from one entry
HistoryItem(cls, id, item) ==
    LET id_int == int(PyStrV(id))
        timestamp == DictGetOr(item, K.timestamp, None)
        timestamp_int == IF HasTimestamp(timestamp) THEN int(timestamp) ELSE PyInt(0)
        amount == DecimalOfStr(DictGetOr(item, K.amount, PyStrV(S.zero)))
        fee == DecimalOfStr(DictGetOr(item, K.fee, PyStrV(S.zero)))
        raised == FirstRaised(<<id_int, timestamp_int, amount>>
                              \o IF cls = "WithdrawalRecords" THEN <<fee>> ELSE <<>>)
        deposit == [t |-> "DepositHistoryItem", id |-> id_int.n,
                    timestamp |-> timestamp_int.n,
                    address |-> DictGetOr(item, K.address, PyStrV(<<>>)),
                    amount |-> amount,
                    txid |-> DictGetOr(item, K.txid, PyStrV(<<>>))]
    IN IF raised # None THEN raised
       ELSE IF cls = "DepositRecords" THEN deposit
       ELSE [t |-> "WithdrawalHistoryItem", id |-> deposit.id,
             timestamp |-> deposit.timestamp, address |-> deposit.address,
             amount |-> amount, txid |-> deposit.txid, fee |-> fee,
             status |-> DictGetOr(item, K.status, PyStrV(<<>>))]

\* the record built from one entry of the keyed collection of class cls
KeyedItem(cls, key, item, utcoffset) ==
    IF cls = "TradeExecutionList" THEN TradeExecution(key, item, utcoffset)
    ELSE HistoryItem(cls, key, item)

\* a slip in the loop: the first entry that fails to convert ends the parse
RECURSIVE KeyedItems_StopAtBadEntry(_, _, _, _, _)
KeyedItems_StopAtBadEntry(cls, data, utcoffset, i, items) ==
    IF i > Len(data.s) THEN Returned(items)
    ELSE IF data.s[i][2].t # "dict"
    THEN KeyedItems_StopAtBadEntry(cls, data, utcoffset, i + 1, items)
    ELSE LET item == KeyedItem(cls, data.s[i][1], data.s[i][2], utcoffset) IN
         IF ~IsException(item)
         THEN KeyedItems_StopAtBadEntry(cls, data, utcoffset, i + 1, Append(items, item))
         ELSE IF item.t \in {"ValueError", "TypeError", "KeyError"}
         THEN Returned(items)
         ELSE Raised(item)

\* the loop of DepositRecords.from_dict, WithdrawalRecords.from_dict and
\* TradeExecutionList.from_dict from entry i on: an entry that is no mapping
\* is skipped; ValueError, TypeError and KeyError are caught per entry
RECURSIVE KeyedItems(_, _, _, _, _)
KeyedItems(cls, data, utcoffset, i, items) ==
    IF i > Len(data.s) THEN Returned(items)
    ELSE IF data.s[i][2].t # "dict"
    THEN KeyedItems(cls, data, utcoffset, i + 1, items)
    ELSE LET item == KeyedItem(cls, data.s[i][1], data.s[i][2], utcoffset) IN
         IF ~IsException(item)
         THEN KeyedItems(cls, data, utcoffset, i + 1, Append(items, item))
         ELSE IF item.t \in {"ValueError", "TypeError", "KeyError"}
         THEN KeyedItems(cls, data, utcoffset, i + 1, items)
         ELSE Raised(item)

\* Ticker.from_dict: data[key] raises KeyError for a missing key
Ticker(data) ==
    LET field(key) ==
            IF DictHas(data, key) THEN DecimalOfStr(DictGet(data, key))
            ELSE Exception("KeyError", key)
        raised == FirstRaised(<<field(K.last), field(K.high), field(K.low),
                                field(K.ask), field(K.bid), field(K.volume)>>)
    IN IF raised # None THEN Raised(raised)
       ELSE Returned([t |-> "Ticker", last_price |-> field(K.last),
                      high_price |-> field(K.high), low_price |-> field(K.low),
                      ask_price |-> field(K.ask), bid_price |-> field(K.bid),
                      volume |-> field(K.volume)])

\* models/chart.py lines 84-88 (the display names as ASCII glosses)
timeframe_names ==
    PyDict(<< <<<<"1">>, PyStrV(<<"1","-","m","i","n","u","t","e","-","a","s","h","i">>)>>,
              <<<<"5">>, PyStrV(<<"5","-","m","i","n","u","t","e","-","a","s","h","i">>)>>,
              <<<<"1","5">>, PyStrV(<<"1","5","-","m","i","n","u","t","e","-","a","s","h","i">>)>>,
              <<<<"3","0">>, PyStrV(<<"3","0","-","m","i","n","u","t","e","-","a","s","h","i">>)>>,
              <<<<"6","0">>, PyStrV(<<"1","-","h","o","u","r","-","a","s","h","i">>)>>,
              <<<<"2","4","0">>, PyStrV(<<"4","-","h","o","u","r","-","a","s","h","i">>)>>,
              <<<<"4","8","0">>, PyStrV(<<"8","-","h","o","u","r","-","a","s","h","i">>)>>,
              <<<<"7","2","0">>, PyStrV(<<"1","2","-","h","o","u","r","-","a","s","h","i">>)>>,
              <<<<"D">>, PyStrV(<<"d","a","y","-","a","s","h","i">>)>>,
              <<<<"W">>, PyStrV(<<"w","e","e","k","-","a","s","h","i">>)>> >>)

\* datetime.fromtimestamp(timestamp_ms / 1000).isoformat() for an int
\* timestamp_ms >= 0: isoformat prints the microseconds, six digits, unless
\* they are zero; a raised value is passed on
IsoOfMillis(timestamp_ms, utcoffset) ==
    IF IsException(timestamp_ms) THEN timestamp_ms
    ELSE PyStrV(fromtimestamp_isoformat(timestamp_ms.n \div 1000, utcoffset)
                \o (IF timestamp_ms.n % 1000 = 0 THEN <<>>
                    ELSE <<".">> \o PadLeft(IntStr(timestamp_ms.n % 1000), 3)
                         \o <<"0", "0", "0">>))

\* int(datetime.fromisoformat(iso).timestamp() * 1000) in the zone whose
\* local time is UTC + utcoffset seconds.  fromisoformat reads the fields
\* of "YYYY-MM-DDTHH:MM:SS[.ffffff]"; timestamp() is the binary64 number
\* nearest to seconds + microseconds / 10^6, and int() truncates its
\* binary64 product with 1000.  The product is exact for whole seconds; for
\* the readings of Below it lies under the whole number of milliseconds.
\* Defined for whole seconds and for readings before 2 s after the epoch.
MillisOfIso(iso, utcoffset) ==
    LET num(from, to) == ParseInt(SubSeq(iso, from, to))
        year == num(1, 4) - (IF num(6, 7) <= 2 THEN 1 ELSE 0)
        era == year \div 400
        yoe == year - era * 400
        mp == (num(6, 7) + 9) % 12
        doy == ((153 * mp + 2) \div 5) + num(9, 10) - 1
        doe == yoe * 365 + (yoe \div 4) - (yoe \div 100) + doy
        days == era * 146097 + doe - 719468
        seconds == days * 86400 + num(12, 13) * 3600 + num(15, 16) * 60
                   + num(18, 19) - utcoffset
        microsecond == IF Len(iso) > 19 THEN num(21, 26) ELSE 0
        Below == {1001 + 2 * i : i \in 0..11} \cup {1118}
                 \cup {1235 + 4 * i : i \in 0..2}
                 \cup {b + 4 * i : b \in {1344, 1469}, i \in 0..6}
                 \cup {b + 4 * i : b \in {1566, 1691, 1816, 1941}, i \in 0..13}
        millis == seconds * 1000 + (microsecond \div 1000)
    IN CASE microsecond = 0 -> millis
         [] microsecond # 0 /\ seconds < 2 ->
               IF millis \in Below THEN millis - 1 ELSE millis

\* models/chart.py lines 71-81: the CandlestickData built from one item
CandlestickData(item, utcoffset) ==
    LET time == ItemGet(item, K.time, PyInt(0))
        timestamp_ms == IF IsException(time) THEN time ELSE int(time)
        timestamp == IsoOfMillis(timestamp_ms, utcoffset)
        open_price == DecimalOfStr(ItemGet(item, K.open, PyStrV(S.zero)))
        high_price == DecimalOfStr(ItemGet(item, K.high, PyStrV(S.zero)))
        low_price == DecimalOfStr(ItemGet(item, K.low, PyStrV(S.zero)))
        close_price == DecimalOfStr(ItemGet(item, K.close, PyStrV(S.zero)))
        volume == DecimalOfStr(ItemGet(item, K.volume, PyStrV(S.zero)))
        raised == FirstRaised(<<timestamp, open_price, high_price, low_price,
                                close_price, volume>>)
    IN IF raised # None THEN raised
       ELSE [t |-> "CandlestickData", timestamp |-> timestamp,
             open_price |-> open_price, high_price |-> high_price,
             low_price |-> low_price, close_price |-> close_price,
             volume |-> volume]

\* PriceChartData.from_dict: nothing is caught; iterating a value that is
\* no list raises TypeError
PriceChartData_from_dict(data, currency_pair, timeframe, start_date, end_date, utcoffset) ==
    LET ohlc_data == ItemGet(data, K.ohlc_data, PyList(<<>>))
        candlesticks ==
            IF IsException(ohlc_data) THEN <<ohlc_data>>
            ELSE IF ohlc_data.t # "list"
            THEN <<Exception("TypeError", M.NotIterable)>>
            ELSE [i \in 1..Len(ohlc_data.s) |-> CandlestickData(ohlc_data.s[i], utcoffset)]
        timeframe_display ==
            DictGetOr(timeframe_names, timeframe.s, PyStrV(timeframe.s \o S.ashi))
        data_count == int(DictGetOr(data, K.data_count, PyInt(0)))
        raised == FirstRaised(candlesticks \o <<data_count>>)
    IN IF raised # None THEN Raised(raised)
       ELSE Returned([t |-> "PriceChartData", currency_pair |-> currency_pair,
                      timeframe |-> timeframe_display, start_date |-> start_date,
                      end_date |-> end_date, candlesticks |-> candlesticks,
                      data_count |-> data_count.n])

\* CurrencyPair.from_dict: data[key] raises KeyError for a missing key and
\* TypeError when data is no mapping
CurrencyPair(data) ==
    LET field(key) ==
            IF data.t # "dict" THEN Exception("TypeError", M.NotSubscriptable)
            ELSE IF DictHas(data, key) THEN DictGet(data, key)
            ELSE Exception("KeyError", key)
        base_currency_name == field(K.item_japanese)
        quote_currency_name == field(K.aux_japanese)
        currency_pair == field(K.currency_pair)
        min_quantity == DecimalOfStr(field(K.item_unit_min))
        quantity_step == DecimalOfStr(field(K.item_unit_step))
        min_price == DecimalOfStr(field(K.aux_unit_min))
        price_step == DecimalOfStr(field(K.aux_unit_step))
        aux_unit_point == field(K.aux_unit_point)
        price_precision == IF IsException(aux_unit_point) THEN aux_unit_point
                           ELSE int(aux_unit_point)
        raised == FirstRaised(<<base_currency_name, quote_currency_name, currency_pair,
                                min_quantity, quantity_step, min_price, price_step,
                                price_precision>>)
    IN IF raised # None THEN raised
       ELSE [t |-> "CurrencyPair", currency_pair |-> currency_pair,
             min_quantity |-> min_quantity, quantity_step |-> quantity_step,
             min_price |-> min_price, price_step |-> price_step,
             price_precision |-> price_precision.n,
             display_name |-> PyStrV(PyStr(base_currency_name) \o <<"/">>
                                     \o PyStr(quote_currency_name))]

\* a slip in the comprehension: the side is built from its last item to its
\* first
OrderBookItems_Reversed(data, side) ==
    LET items == DictGetOr(data, side, PyList(<<>>))
        at(item, k) ==
            IF item.t # "list" THEN Exception("TypeError", M.NotSubscriptable)
            ELSE IF Len(item.s) < k THEN Exception("IndexError", M.IndexError)
            ELSE DecimalOfStr(item.s[k])
        OrderBookItem(item) ==
            LET raised == FirstRaised(<<at(item, 1), at(item, 2)>>) IN
            IF raised # None THEN raised
            ELSE [t |-> "OrderBookItem", price |-> at(item, 1), quantity |-> at(item, 2)]
    IN IF items.t # "list" THEN <<Exception("TypeError", M.NotIterable)>>
       ELSE [i \in 1..Len(items.s) |-> OrderBookItem(items.s[Len(items.s) + 1 - i])]

\* OrderBook.from_dict, one side: [OrderBookItem(Decimal(str(item[0])),
\* Decimal(str(item[1]))) for item in data.get(side, [])]; item[k] raises
\* IndexError on a shorter list and TypeError on a value without items
OrderBookItems(data, side) ==
    LET items == DictGetOr(data, side, PyList(<<>>))
        at(item, k) ==
            IF item.t # "list" THEN Exception("TypeError", M.NotSubscriptable)
            ELSE IF Len(item.s) < k THEN Exception("IndexError", M.IndexError)
            ELSE DecimalOfStr(item.s[k])
        OrderBookItem(item) ==
            LET raised == FirstRaised(<<at(item, 1), at(item, 2)>>) IN
            IF raised # None THEN raised
            ELSE [t |-> "OrderBookItem", price |-> at(item, 1), quantity |-> at(item, 2)]
    IN IF items.t # "list" THEN <<Exception("TypeError", M.NotIterable)>>
       ELSE [i \in 1..Len(items.s) |-> OrderBookItem(items.s[i])]

\* cls.from_dict(data): data.items() raises AttributeError unless data is a
\* mapping
from_dict(cls, data, utcoffset) ==
    LET items == KeyedItems(cls, data, utcoffset, 1, <<>>)
        asks == OrderBookItems(data, K.asks)
        bids == OrderBookItems(data, K.bids)
    IN
    IF cls # "Ticker" /\ data.t # "dict"
    THEN Raised(Exception("AttributeError", M.NoAttrItems))
    ELSE
    CASE cls = "Ticker" -> Ticker(data)
      [] cls = "OrderBook" ->
            IF FirstRaised(asks \o bids) # None THEN Raised(FirstRaised(asks \o bids))
            ELSE Returned([t |-> cls, asks |-> asks, bids |-> bids])
      [] cls = "OpenOrderList" -> OpenOrderList_from_dict(data, utcoffset, 1, EmptyDict)
      [] cls = "TradeExecutionList" /\ items.returned ->
            Returned([t |-> cls, executions |-> items.data])
      [] cls \in {"DepositRecords", "WithdrawalRecords"} /\ items.returned ->
            Returned([t |-> cls, items |-> items.data])
      [] OTHER -> items

\* self.to_dict(); utcoffset is the zone of the host
to_dict(self, utcoffset) ==
    CASE self.t = "Ticker" ->
            PyDict(<< <<K.last, PyStrV(PyStr(self.last_price))>>,
                      <<K.high, PyStrV(PyStr(self.high_price))>>,
                      <<K.low, PyStrV(PyStr(self.low_price))>>,
                      <<K.ask, PyStrV(PyStr(self.ask_price))>>,
                      <<K.bid, PyStrV(PyStr(self.bid_price))>>,
                      <<K.volume, PyStrV(PyStr(self.volume))>> >>)
      [] self.t = "OpenOrderList" ->
            PyDict([i \in 1..Len(self.open_orders.s) |->
                LET order_id == self.open_orders.s[i][1]
                    order_item == self.open_orders.s[i][2]
                IN <<IntStr(order_id),
                     PyDict(<< <<K.currency_pair, order_item.currency_pair>>,
                               <<K.action, order_item.order_type>>,
                               <<K.price, PyStrV(PyStr(order_item.price))>>,
                               <<K.amount, PyStrV(PyStr(order_item.quantity))>>,
                               <<K.date, order_item.order_time>> >>)>>])
      [] self.t = "TradeExecutionList" ->
            PyList([i \in 1..Len(self.executions) |->
                LET item == self.executions[i]
                    trade_dict ==
                        PyDict(<< <<K.id, PyInt(item.execution_id)>>,
                                  <<K.currency_pair, item.currency_pair>>,
                                  <<K.action, item.trade_side>>,
                                  <<K.price, PyStrV(PyStr(item.price))>>,
                                  <<K.amount, PyStrV(PyStr(item.quantity))>>,
                                  <<K.fee, PyStrV(PyStr(item.fee_amount))>>,
                                  <<K.your_action, item.market_role>> >>)
                IN SetIf(item.execution_time # None, trade_dict,
                         K.timestamp, item.execution_time)])
      [] self.t \in {"DepositRecords", "WithdrawalRecords"} ->
            PyList([i \in 1..Len(self.items) |->
                LET item == self.items[i]
                    deposit ==
                        PyDict(<< <<K.id, PyInt(item.id)>>,
                                  <<K.timestamp, PyInt(item.timestamp)>>,
                                  <<K.address, item.address>>,
                                  <<K.amount, PyStrV(PyStr(item.amount))>>,
                                  <<K.txid, item.txid>> >>)
                IN IF self.t = "DepositRecords" THEN deposit
                   ELSE DictSet(DictSet(deposit, K.fee, PyStrV(PyStr(item.fee))),
                                K.status, item.status)])
      [] self.t = "OrderBook" ->
            LET side(items) ==
                    PyList([i \in 1..Len(items) |->
                              PyList(<<PyStrV(PyStr(items[i].price)),
                                       PyStrV(PyStr(items[i].quantity))>>)])
            IN PyDict(<< <<K.asks, side(self.asks)>>, <<K.bids, side(self.bids)>> >>)
      [] self.t = "PriceChartData" ->
            PyDict(<< <<K.ohlc_data,
                        PyList([i \in 1..Len(self.candlesticks) |->
                            LET item == self.candlesticks[i] IN
                            PyDict(<< <<K.time, PyInt(MillisOfIso(item.timestamp.s, utcoffset))>>,
                                      <<K.open, PyStrV(PyStr(item.open_price))>>,
                                      <<K.high, PyStrV(PyStr(item.high_price))>>,
                                      <<K.low, PyStrV(PyStr(item.low_price))>>,
                                      <<K.close, PyStrV(PyStr(item.close_price))>>,
                                      <<K.volume, PyStrV(PyStr(item.volume))>> >>)])>>,
                      <<K.data_count, PyInt(self.data_count)>> >>)

\* what the facade method returns for the body `data` the transport gave:
\* MarketApi.get_currency_pairs builds [CurrencyPair.from_dict(item) for
\* item in data] (iterating a mapping gives its keys);
\* ChartApi.get_ohlc decodes a str body a second time (json.loads, here on
\* the one JSON text In.json_chart; any other text raises JSONDecodeError)
\* and labels the record with the ISO text of its datetime arguments; the
\* other methods hand the body to from_dict
FacadeReturn(cls, src, data, utcoffset) ==
    LET decoded ==
            IF data.t # "str" THEN data
            ELSE IF data.s = In.json_chart
            THEN PyDict(<< <<K.ohlc_data, PyList(<<>>)>>, <<K.data_count, PyInt(0)>> >>)
            ELSE Exception("json.JSONDecodeError", M.JsonDecode)
        isoformat(date) == PyStrV(fromtimestamp_isoformat(IsoTimestamp(date.s), 0))
        pairs == CASE data.t = "list" -> [i \in 1..Len(data.s) |-> CurrencyPair(data.s[i])]
                   [] data.t = "dict" ->
                         [i \in 1..Len(data.s) |-> CurrencyPair(PyStrV(data.s[i][1]))]
                   [] OTHER -> <<Exception("TypeError", M.NotIterable)>>
    IN CASE cls = "PriceChartData" /\ IsException(decoded) -> Raised(decoded)
         [] cls = "PriceChartData" /\ ~IsException(decoded) ->
               PriceChartData_from_dict(decoded, src.currency_pair, src.timeframe,
                                        isoformat(src.start_date), isoformat(src.end_date),
                                        utcoffset)
         [] cls = "CurrencyPairs" ->
               IF FirstRaised(pairs) # None THEN Raised(FirstRaised(pairs))
               ELSE Returned(PyList(pairs))
         [] OTHER -> from_dict(cls, data, utcoffset)

\* a slip in the handlers: the record is returned as the facade gave it
HandlerReturn_NoFilter(cls, src, record, utcoffset) ==
    IF cls = "PriceChartData"
    THEN PriceChartData_from_dict(to_dict(record, utcoffset), src.currency_pair,
                                  src.timeframe, src.start_date, src.end_date, utcoffset)
    ELSE Returned(record)

\* what the tool handler returns for the record the facade gave:
\* get_price_chart converts the record back and parses it again under its
\* own arguments; get_open_orders, get_trade_executions and
\* get_currency_pairs keep the records whose currency_pair is in the list
\* ["btc_jpy", "eth_jpy", "xym_jpy"]; get_ticker and get_market_depth return
\* the record as it is
HandlerReturn(cls, src, record, utcoffset) ==
    LET Supported == {PyStrV(pair) : pair \in SupportedPairs} IN
    CASE cls = "PriceChartData" ->
            PriceChartData_from_dict(to_dict(record, utcoffset), src.currency_pair,
                                     src.timeframe, src.start_date, src.end_date, utcoffset)
      [] cls = "OpenOrderList" /\ Truthy(record.open_orders) ->
            Returned([record EXCEPT !.open_orders =
                PyDict(SelectSeq(@.s, LAMBDA e : e[2].currency_pair \in Supported))])
      [] cls = "TradeExecutionList" /\ Len(record.executions) > 0 ->
            Returned([record EXCEPT !.executions =
                SelectSeq(@, LAMBDA execution : execution.currency_pair \in Supported)])
      [] cls = "CurrencyPairs" ->
            Returned(PyList(SelectSeq(record.s, LAMBDA p : p.currency_pair \in Supported)))
      [] OTHER -> Returned(record)

\* ------------------------------------------------- normalizer inputs
\* the most entries of a keyed collection
MaxEntries == 2

\* local time zones of the host: UTC and UTC+9
UtcOffsets == {0, 32400}

\* a member the upstream object does not carry
Absent == [t |-> "absent", n |-> 0, s |-> <<>>]

\* a decoded JSON object with the members f gives, absent ones left out
JsonObject(f) ==
    PyDict(SelectSeq(<< <<K.currency_pair, f.currency_pair>>, <<K.action, f.action>>,
                        <<K.your_action, f.your_action>>, <<K.price, f.price>>,
                        <<K.amount, f.amount>>, <<K.fee, f.fee>>,
                        <<K.timestamp, f.timestamp>>, <<K.address, f.address>>,
                        <<K.txid, f.txid>>, <<K.status, f.status>> >>,
                     LAMBDA p : p[2] # Absent))

\* the members of a well-formed upstream entry
GoodEntry ==
    [currency_pair |-> PyStrV(S.btc_jpy), action |-> PyStrV(S.bid),
     your_action |-> PyStrV(S.ask), price |-> PyStrV(<<"1", "0", "0">>),
     amount |-> PyStrV(<<"0", ".", "5", "0">>), fee |-> PyStrV(<<"0", ".", "1">>),
     timestamp |-> PyInt(1704067200), address |-> PyStrV(In.a),
     txid |-> PyStrV(In.x), status |-> PyStrV(In.x)]

\* the values found under one key of a keyed collection: entries that vary
\* GoodEntry in its sides, in one numeric member or in its timestamp, and
\* values that are no mappings
EntryValues ==
    {JsonObject([GoodEntry EXCEPT !.action = a, !.your_action = y])
        : a \in {Absent, PyStrV(<<>>), PyStrV(In.x), PyStrV(S.bid), PyStrV(S.ask)},
          y \in {Absent, PyStrV(S.both), PyStrV(S.bid), PyStrV(S.ask), PyStrV(In.x)}}
    \cup {JsonObject([GoodEntry EXCEPT !.amount = v])
            : v \in {PyStrV(In.x), None, Absent, PyInt(3)}}
    \cup {JsonObject([GoodEntry EXCEPT !.price = PyStrV(In.x)]),
          JsonObject([GoodEntry EXCEPT !.fee = PyStrV(In.x)])}
    \cup {JsonObject([GoodEntry EXCEPT !.timestamp = v])
            : v \in {PyStrV(<<"8", "6", "4", "0", "0">>), PyStrV(In.x), PyStrV(<<>>),
                     None, Absent, [t |-> "list", n |-> 0, s |-> <<>>]}}
    \cup {JsonObject([GoodEntry EXCEPT !.timestamp = PyStrV(In.x), !.amount = PyStrV(In.x)])}
    \cup {None, PyStrV(In.x), PyInt(1), [t |-> "list", n |-> 0, s |-> <<>>]}

\* the entry under test: a value under an integer key or under another key
ProbeEntries == {<<k, v>> : k \in {<<"7">>, In.x}, v \in EntryValues}

\* the entries around it, each under its own key
OtherEntries ==
    {<<<<"1">>, JsonObject(GoodEntry)>>,
     <<<<"2">>, JsonObject([GoodEntry EXCEPT !.your_action = PyStrV(S.bid),
                                             !.currency_pair = PyStrV(In.doge_jpy)])>>,
     <<<<"3">>, PyStrV(In.x)>>}

\* the keyed collections: one probe entry at any place among at most
\* MaxEntries - 1 other entries, in any order
KeyedWires ==
    {PyDict(SubSeq(around, 1, at - 1) \o <<probe>> \o SubSeq(around, at, Len(around)))
        : probe \in ProbeEntries,
          <<around, at>> \in
             {<<s, i>> \in (UNION {[1..n -> OtherEntries] : n \in 0..(MaxEntries - 1)})
                             \X (1..MaxEntries) :
                 /\ i <= Len(s) + 1
                 /\ \A j, k \in 1..Len(s) : j # k => s[j] # s[k]}}

\* the upstream's rendering of units / 10^scale
FixedPoint(q) ==
    IF q.scale = 0 THEN IntStr(q.units)
    ELSE IntStr(q.units \div Pow10(q.scale)) \o <<".">>
         \o PadLeft(IntStr(q.units % Pow10(q.scale)), q.scale)

\* the tickers, each quote as units and scale: last and volume vary or are
\* left out, the other four differ from each other
TickerSources ==
    LET Quotes == {[units |-> 100, scale |-> 0], [units |-> 10, scale |-> 2],
                   [units |-> 995, scale |-> 1], [units |-> 12345, scale |-> 3]}
    IN {[last |-> l, high |-> [units |-> 110, scale |-> 0],
         low |-> [units |-> 905, scale |-> 1], ask |-> [units |-> 101, scale |-> 0],
         bid |-> [units |-> 99, scale |-> 0], volume |-> v]
          : l \in Quotes \cup {Absent}, v \in Quotes \cup {Absent}}

\* the ticker as the upstream sends it
TickerWire(src) ==
    LET text(q) == IF q = Absent THEN Absent ELSE PyStrV(FixedPoint(q)) IN
    PyDict(SelectSeq(<< <<K.last, text(src.last)>>,
                        <<K.high, text(src.high)>>,
                        <<K.low, text(src.low)>>,
                        <<K.ask, text(src.ask)>>,
                        <<K.bid, text(src.bid)>>,
                        <<K.volume, text(src.volume)>> >>,
                     LAMBDA p : p[2] # Absent))

KeyedClasses == {"DepositRecords", "WithdrawalRecords", "TradeExecutionList"}

\* the bodies of the depth endpoint: asks of at most MaxEntries price and
\* quantity pairs in any order, repeated prices included, or with an item
\* that is too short, no list or not numeric; bids in either order, empty
\* or missing
OrderBookWires ==
    LET Pair(price, quantity) == PyList(<<price, quantity>>)
        Items == {Pair(PyStrV(<<"1", "0", "0">>), PyStrV(<<"0", ".", "5", "0">>)),
                  Pair(PyStrV(<<"9", "9">>), PyStrV(<<"1">>)),
                  Pair(PyInt(100), PyFloat(2)),
                  Pair(PyStrV(In.x), PyStrV(<<"1">>)),
                  PyList(<<PyStrV(<<"9", "9">>)>>), None}
        b1 == Pair(PyStrV(<<"9", "8">>), PyStrV(<<"3">>))
        b2 == Pair(PyStrV(<<"9", "7", ".", "5">>), PyStrV(<<"0", ".", "1">>))
    IN {PyDict(SelectSeq(<< <<K.asks, PyList(asks)>>, <<K.bids, bids>> >>,
                         LAMBDA p : p[2] # Absent))
          : asks \in UNION {[1..n -> Items] : n \in 0..MaxEntries},
            bids \in {Absent, PyList(<<>>), PyList(<<b1, b2>>), PyList(<<b2, b1>>)}}

\* the bodies of the currency_pairs endpoint: at most MaxEntries items, each
\* the description of a listed or an unlisted pair, one with a member left
\* out, or no mapping
PairWires ==
    LET Info(currency_pair, item_japanese, aux_unit_point) ==
            PyDict(SelectSeq(<< <<K.currency_pair, PyStrV(currency_pair)>>,
                                <<K.item_japanese, item_japanese>>,
                                <<K.aux_japanese, PyStrV(In.a)>>,
                                <<K.item_unit_min, PyFloat(1)>>,
                                <<K.item_unit_step, PyStrV(<<"0", ".", "1">>)>>,
                                <<K.aux_unit_min, PyFloat(5)>>,
                                <<K.aux_unit_step, PyFloat(5)>>,
                                <<K.aux_unit_point, aux_unit_point>> >>,
                             LAMBDA p : p[2] # Absent))
        Items == {Info(pair, PyStrV(In.x), PyInt(0))
                    : pair \in {S.btc_jpy, S.xym_jpy, In.doge_jpy}}
                 \cup {Info(S.eth_jpy, Absent, PyInt(0)),
                       Info(S.eth_jpy, PyStrV(In.x), Absent), PyStrV(In.x)}
    IN {PyList(items) : items \in UNION {[1..n -> Items] : n \in 0..MaxEntries}}

\* the arguments of get_price_chart, with a listed and an unlisted timeframe
ChartArgs ==
    {[currency_pair |-> PyStrV(S.btc_jpy), timeframe |-> PyStrV(tf),
      start_date |-> PyStrV(In.date_good), end_date |-> PyStrV(In.date_good)]
        : tf \in {In.m60, In.x}}

\* the bodies of the chart history: at most MaxEntries candles whose time is
\* a whole second, a whole millisecond, digits in a string, missing or no
\* number, or items that are no mappings or carry no numeric price, under
\* a data_count that is right, wrong or missing; a body that is JSON text; a
\* body that is no mapping
ChartWires ==
    LET Candle(time, open) ==
            PyDict(SelectSeq(<< <<K.time, time>>, <<K.open, open>>,
                                <<K.high, PyStrV(<<"1", "1", "0">>)>>,
                                <<K.low, PyStrV(<<"9", "0", ".", "5">>)>>,
                                <<K.close, PyStrV(<<"1", "0", "0">>)>>,
                                <<K.volume, PyStrV(<<"0", ".", "5", "0">>)>> >>,
                             LAMBDA p : p[2] # Absent))
        Items == {Candle(time, PyStrV(<<"9", "9">>))
                    : time \in {PyInt(86400000), PyInt(1001), PyInt(1500),
                                PyStrV(<<"1", "0", "0", "0">>), Absent, PyStrV(In.x)}}
                 \cup {Candle(PyInt(86400000), PyStrV(In.x)), PyStrV(In.x)}
        Body(ohlc_data, data_count) ==
            PyDict(SelectSeq(<< <<K.ohlc_data, PyList(ohlc_data)>>,
                                <<K.data_count, data_count>> >>,
                             LAMBDA p : p[2] # Absent))
    IN {Body(ohlc_data, data_count)
          : ohlc_data \in UNION {[1..n -> Items] : n \in 0..MaxEntries},
            data_count \in {Absent, PyInt(1), PyInt(5)}}
       \cup {PyStrV(In.json_chart), PyStrV(In.x), PyList(<<>>)}

\* ---------------------------------------------- normalizer specification
InitNormalize ==
    /\ env = [api_key |-> None, api_secret |-> None]
    /\ auth_provider = None
    /\ alt_provider = None
    /\ clock = CHOOSE r \in Readings : \A q \in Readings : ~ReadingLess(q, r)
    /\ last_gen = NoGen
    /\ last_sent = None
    /\ calls = 0
    /\ inv = [t \in Threads |-> Idle]
    /\ sg = NoSign
    /\ \E offset \in UtcOffsets :
         \/ \E cls \in KeyedClasses \cup {"OpenOrderList"}, wire \in KeyedWires :
              nz = [NoNormalize EXCEPT !.pc = "wire", !.cls = cls,
                                       !.utcoffset = offset, !.wire = wire]
         \/ \E wire \in OrderBookWires :
              nz = [NoNormalize EXCEPT !.pc = "wire", !.cls = "OrderBook",
                                       !.utcoffset = offset, !.wire = wire]
         \/ \E wire \in PairWires :
              nz = [NoNormalize EXCEPT !.pc = "wire", !.cls = "CurrencyPairs",
                                       !.utcoffset = offset, !.wire = wire]
         \/ \E src \in ChartArgs, wire \in ChartWires :
              nz = [NoNormalize EXCEPT !.pc = "wire", !.cls = "PriceChartData",
                                       !.utcoffset = offset, !.src = src, !.wire = wire]
         \/ \E src \in TickerSources :
              nz = [NoNormalize EXCEPT !.pc = "wire", !.cls = "Ticker",
                                       !.utcoffset = offset, !.src = src,
                                       !.wire = TickerWire(src)]

\* the facade method parses the body: cls.from_dict(wire)
NormalizeFromDict ==
    /\ nz.pc = "wire"
    /\ nz' = [nz EXCEPT !.pc = "parsed",
                        !.parsed = FacadeReturn(nz.cls, nz.src, nz.wire, nz.utcoffset)]
    /\ UNCHANGED <<env, auth_provider, alt_provider, clock, last_gen, last_sent, calls, inv, sg>>

\* x.to_dict() of the record parsed
NormalizeToDict ==
    /\ nz.pc = "parsed"
    /\ nz.parsed.returned
    /\ nz.cls \notin {"PriceChartData", "CurrencyPairs"}
    /\ nz' = [nz EXCEPT !.pc = "rewired", !.rewire = to_dict(nz.parsed.data, nz.utcoffset)]
    /\ UNCHANGED <<env, auth_provider, alt_provider, clock, last_gen, last_sent, calls, inv, sg>>

\* cls.from_dict(x.to_dict())
NormalizeAgain ==
    /\ nz.pc = "rewired"
    /\ nz' = [nz EXCEPT !.pc = "reparsed",
                        !.reparsed = from_dict(nz.cls, nz.rewire, nz.utcoffset)]
    /\ UNCHANGED <<env, auth_provider, alt_provider, clock, last_gen, last_sent, calls, inv, sg>>

\* the tool handler works on the record the facade returned
NormalizeHandler ==
    /\ nz.pc = "parsed"
    /\ nz.parsed.returned
    /\ nz.cls \notin {"DepositRecords", "WithdrawalRecords"}
    /\ nz' = [nz EXCEPT !.pc = "handled",
                        !.result = HandlerReturn(nz.cls, nz.src, nz.parsed.data, nz.utcoffset)]
    /\ UNCHANGED <<env, auth_provider, alt_provider, clock, last_gen, last_sent, calls, inv, sg>>

NextNormalize == NormalizeFromDict \/ NormalizeToDict \/ NormalizeAgain \/ NormalizeHandler

SpecNormalize == InitNormalize /\ [][NextNormalize]_vars

\* ============================================================ properties
\* the invocations in progress or finished, not yet handed back
Started == {t \in Threads : inv[t].pc # "idle"}
Finished == {t \in Threads : inv[t].pc = "done"}
\* the invocations whose request has been handed to the network
Transmitted == {t \in Threads : inv[t].pc \in {"wait", "done"} /\ inv[t].transport_calls > 0}
\* the invocations whose signed request is complete (headers and body built)
SignedBuilt ==
    {t \in Threads : inv[t].verb = "POST" /\ \E i \in 1..Len(inv[t].trace) : inv[t].trace[i] = "sign"}

AuthenticatedOps == AuthenticatedTools \cup {"http_post"}
CredentialsAbsent == ~Truthy(env.api_key) \/ ~Truthy(env.api_secret)

IsUnauthenticated(err) == err.t = "ValueError" /\ err.s \in {M.NoAuthTool, M.NoAuthPost}
IsValidation(err) == err.t = "ValueError" /\ IsPrefix(M.UnsupportedPair, err.s)

\* C1: an authenticated operation started without the API key or without
\* the API secret has failed with the unauthenticated error and has made no
\* transport call.
C1_UnauthenticatedGuard ==
    \A t \in Started :
        (inv[t].arg.op \in AuthenticatedOps /\ CredentialsAbsent)
        => /\ inv[t].pc = "done"
           /\ IsUnauthenticated(inv[t].error)
           /\ ~inv[t].returned
           /\ inv[t].transport_calls = 0

C1_Witness ==
    \E t \in Finished :
        /\ inv[t].arg.op = "place_order"
        /\ Truthy(env.api_key) /\ ~Truthy(env.api_secret)
        /\ IsUnauthenticated(inv[t].error)

\* the decoded body is the envelope {"success": 0, "error": m}, m a string
IsFailureEnvelope(c) ==
    /\ c.verb = "POST" /\ c.pc = "done" /\ c.outcome = "ok"
    /\ c.response.t = "dict"
    /\ DictHas(c.response, K.success) /\ DictGet(c.response, K.success) = PyInt(0)
    /\ DictHas(c.response, K.error) /\ DictGet(c.response, K.error).t = "str"

\* C2 as stated: for the envelope {"success": 0, "error": m} the signed POST
\* returns nothing and raises an error whose message is exactly m.
C2_MessageIsExactlyM ==
    \A t \in Finished :
        IsFailureEnvelope(inv[t])
        => /\ ~inv[t].returned
           /\ inv[t].error.t = "ValueError"
           /\ inv[t].error.s = DictGet(inv[t].response, K.error).s

\* C2 amended: for the envelope {"success": 0, "error": m} the signed POST
\* returns nothing and raises an error whose message is "API error: "
\* followed by m.
C2_MessageIsPrefixedM ==
    \A t \in Finished :
        IsFailureEnvelope(inv[t])
        => /\ ~inv[t].returned
           /\ inv[t].error.t = "ValueError"
           /\ inv[t].error.s = M.ApiError \o DictGet(inv[t].response, K.error).s

C2_Witness ==
    \E t \in Finished :
        /\ IsFailureEnvelope(inv[t])
        /\ DictGet(inv[t].response, K.error).s = In.bad_nonce
        /\ inv[t].error.t = "ValueError"

\* the body's success flag is the number 0 (JSON false is the number 0 to
\* the comparison, as in any boolean-like flag)
SuccessIsZero(body) ==
    /\ DictHas(body, K.success)
    /\ DictGet(body, K.success).t \in {"int", "bool", "float"}
    /\ DictGet(body, K.success).n = 0

\* the transport call succeeded with a JSON object whose success flag is not 0
IsSuccessEnvelope(c) ==
    /\ c.verb = "POST" /\ c.pc = "done" /\ c.outcome = "ok"
    /\ c.response.t = "dict"
    /\ ~SuccessIsZero(c.response)

\* C3: a signed POST whose body's success flag is not 0 returns the `return`
\* sub-object when the body has a `return` key, and the whole body otherwise.
C3_ReturnUnwrapped ==
    \A t \in Finished :
        IsSuccessEnvelope(inv[t])
        => /\ inv[t].returned
           /\ inv[t].error.t = "none"
           /\ inv[t].data = IF DictHas(inv[t].response, K.return)
                            THEN DictGet(inv[t].response, K.return)
                            ELSE inv[t].response

C3_Witness ==
    /\ \E t \in Finished :
         /\ IsSuccessEnvelope(inv[t])
         /\ DictHas(inv[t].response, K.return)
         /\ inv[t].data = PyObj(<<"r">>)

IsDigits(s) == \A i \in 1..Len(s) : \E d \in 1..10 : DigitChars[d] = s[i]
\* the invocations that have drawn a nonce
Nonced == {t \in Threads : inv[t].nonce.t # "none"}

\* C4: a nonce generated at a later clock reading than the nonce generated
\* before it is strictly greater than that nonce, and every nonce reads
\* <unix-seconds>.<six microsecond digits> of its clock reading.
C4_NonceMonotonic ==
    \A t \in Nonced :
        LET c == inv[t] IN
        /\ c.nonce.n = c.reading.sec
        /\ Len(c.nonce.s) = 6 /\ IsDigits(c.nonce.s)
        /\ ParseInt(c.nonce.s) = c.reading.usec
        /\ PyStr(c.nonce) = IntStr(c.reading.sec) \o <<".">> \o c.nonce.s
        /\ (c.prev_gen.nonce.t # "none" /\ ReadingLess(c.prev_gen.reading, c.reading))
           => DecimalLess(c.prev_gen.nonce, c.nonce)

C4_Witness ==
    \E t \in Nonced :
        /\ inv[t].prev_gen.nonce.t # "none"
        /\ inv[t].prev_gen.reading.sec = inv[t].reading.sec
        /\ inv[t].prev_gen.reading.usec = 9
        /\ inv[t].reading.usec = 100000
        /\ DecimalLess(inv[t].prev_gen.nonce, inv[t].nonce)

\* C5 as stated: every signed request is transmitted with a nonce strictly
\* greater than the nonce of the request transmitted before it.
C5_SentNoncesIncrease ==
    \A t \in Transmitted :
        (inv[t].verb = "POST" /\ inv[t].prev_sent.t # "none")
        => DecimalLess(inv[t].prev_sent, CarriedNonce(inv[t]))

\* C6 as stated: the body of every signed request is the string the
\* signature was computed over, and it contains the nonce.
C6_BodyIsSignedString ==
    \A t \in SignedBuilt :
        /\ inv[t].body = inv[t].signed
        /\ DictGet(inv[t].headers, K.sign)
             = hmac_sha512_hex(ProviderSecret(auth_provider), inv[t].body)
        /\ Contains(inv[t].body, K.nonce \o <<"=">> \o quote_plus(PyStr(inv[t].nonce)))

Count(s, e) == Cardinality({i \in 1..Len(s) : s[i] = e})

\* C7: a signed request that reached the transport consumed exactly one
\* nonce, drawn after its parameters were assembled and before it was signed;
\* a POST rejected for missing credentials and a GET draw none.
C7_OneNoncePerSignedRequest ==
    \A t \in Started :
        LET c == inv[t] IN
        /\ (c.verb = "POST" /\ c.transport_calls > 0)
           => c.trace = <<"params", "nonce", "sign", "send">>
        /\ (c.verb = "GET" \/ (c.pc = "done" /\ IsUnauthenticated(c.error)))
           => (Count(c.trace, "nonce") = 0 /\ c.nonce.t = "none")
        /\ Count(c.trace, "nonce") <= 1

C7_Witness ==
    \E t \in Transmitted :
        /\ inv[t].verb = "POST"
        /\ inv[t].arg.op = "cancel_order"
        /\ Count(inv[t].trace, "nonce") = 1

\* the header values that are plain strings do not contain s
HeadersFreeOf(headers, s) ==
    \A i \in 1..Len(headers.s) :
        /\ ~Contains(headers.s[i][1], s)
        /\ headers.s[i][2].t = "str" => ~Contains(headers.s[i][2].s, s)
\* the query or form parameters, as sent, do not contain s
ParamsFreeOf(params, s) == params.t = "dict" => ~Contains(urlencode(params), s)

\* h1 and h2 have the same entries in the same order, but for the value of `sign`
SameButSign(h1, h2) ==
    /\ Len(h1.s) = Len(h2.s)
    /\ \A i \in 1..Len(h1.s) :
         /\ h1.s[i][1] = h2.s[i][1]
         /\ h1.s[i][1] # K.sign => h1.s[i][2] = h2.s[i][2]

\* C8: no request contains the API secret in its URL, headers or body; a
\* signed request carries the caller's headers (none for the tools) plus the
\* public key and the signature only; and the run that differs in the secret
\* alone sends the same message but for the value of `sign`.
C8_SecretNeverSent ==
    Truthy(env.api_secret) =>
    \A t \in Started :
        LET c == inv[t]
            secret == env.api_secret.s
        IN
        /\ ~Contains(c.url, secret)
        /\ ParamsFreeOf(c.params, secret)
        /\ t \in SignedBuilt =>
             /\ ~Contains(c.body, secret)
             /\ HeadersFreeOf(c.headers, secret)
             /\ DictKeys(c.headers) =
                  (IF Truthy(c.arg.headers) THEN DictKeys(c.arg.headers) ELSE {})
                  \cup {K.key, K.sign}
             /\ DictGet(c.headers, K.key) = PyStrV(env.api_key.s)
             /\ DictGet(c.headers, K.sign).t = "hmac"
             /\ c.alt_body = c.body
             /\ SameButSign(c.headers, c.alt_headers)
             /\ DictGet(c.headers, K.sign) # DictGet(c.alt_headers, K.sign)

C8_Witness ==
    \E t \in Transmitted :
        /\ inv[t].verb = "POST"
        /\ inv[t].arg.op = "get_account_balance"
        /\ DictKeys(inv[t].headers) = {K.key, K.sign}
        /\ Truthy(env.api_secret)

\* a and b have the same keys in the same order and differ in one value
DifferInOneValue(a, b) ==
    /\ Len(a.s) = Len(b.s)
    /\ \A i \in 1..Len(a.s) : a.s[i][1] = b.s[i][1]
    /\ Cardinality({i \in 1..Len(a.s) : a.s[i][2] # b.s[i][2]}) = 1

\* C9: two signings with the same secret over the same parameters and nonce
\* give the same signature, and two signings over mappings that differ in
\* the value of one parameter give different signatures.
C9_SignatureBindsParameters ==
    sg.pc = "done" =>
        /\ sg.a = sg.b => sg.sig_a = sg.sig_b
        /\ DifferInOneValue(sg.a, sg.b) => sg.sig_a # sg.sig_b

C9_Witness ==
    /\ sg.pc = "done"
    /\ sg.nonce_a = sg.nonce_b
    /\ DifferInOneValue(sg.a, sg.b)
    /\ DictGet(sg.a, In.a) = PyStrV(In.x_y)
    /\ DictGet(sg.b, In.a) = PyStrV(In.xplusy)
    /\ sg.sig_a # sg.sig_b

\* the invocation is get_trade_executions with a pair outside the allow-list
IsUnsupportedPairQuery(c) ==
    /\ c.arg.op = "get_trade_executions"
    /\ c.arg.currency_pair.t = "str"
    /\ c.arg.currency_pair.s \notin SupportedPairs

RequestNames(c, p) ==
    \/ Contains(c.url, p)
    \/ /\ c.params.t = "dict"
       /\ \E i \in 1..Len(c.params.s) : c.params.s[i][2] = PyStrV(p)

\* C11: no request handed to the transport names a currency pair outside
\* the allow-list: a handler given such a pair rejects it or drops it.
C11_UnsupportedPairNeverSent ==
    \A t \in Transmitted :
        LET p == inv[t].arg.currency_pair IN
        (p.t = "str" /\ p.s \notin SupportedPairs) => ~RequestNames(inv[t], p.s)

\* the credential check of the invocation's operation passes
CredentialCheckPasses(a) == a.op \in AuthenticatedOps => ~CredentialsAbsent

\* a date argument the handler can parse (an empty one is skipped)
DateArgumentOk(d, required) ==
    IF Len(d.s) = 0 THEN ~required ELSE IsIsoDate(d.s)

\* the argument checks of the invocation's operation pass
ArgumentChecksPass(a) ==
    CASE a.op = "get_trade_executions" ->
            /\ a.currency_pair.t = "str" => a.currency_pair.s \in SupportedPairs
            /\ DateArgumentOk(a.start_date, FALSE)
            /\ DateArgumentOk(a.end_date, FALSE)
      [] a.op = "get_price_chart" ->
            DateArgumentOk(a.start_date, TRUE) /\ DateArgumentOk(a.end_date, TRUE)
      [] OTHER -> TRUE

\* the transport call of invocation c failed: the transport raised, the body
\* did not decode, or the exchange answered a POST with success 0
IsFailedCall(c) ==
    /\ c.pc = "done" /\ c.transport_calls > 0
    /\ \/ c.outcome # "ok"
       \/ /\ c.verb = "POST" /\ c.response.t = "dict"
          /\ PyEqInt(DictGetOr(c.response, K.success, None), 0)

\* C14: an invocation makes at most one transport call: none when its
\* credential or argument check fails, exactly one by the time it finishes
\* when both pass; a failed call ends the invocation with its error raised
\* and is not sent again.
C14_OneTransportCall ==
    \A t \in Started :
        LET c == inv[t]
            pass == CredentialCheckPasses(c.arg) /\ ArgumentChecksPass(c.arg)
        IN /\ c.transport_calls <= 1
           /\ ~pass => c.transport_calls = 0
           /\ (pass /\ c.pc = "done") => c.transport_calls = 1
           /\ IsFailedCall(c) =>
                /\ ~c.returned
                /\ c.error.t # "none"
                /\ c.transport_calls = 1

C14_Witness ==
    \E t \in Finished :
        /\ inv[t].arg.op = "get_trade_executions"
        /\ inv[t].outcome = "Timeout"
        /\ inv[t].transport_calls = 1
        /\ inv[t].error = ValueError(M.TimeoutError)

\* the exception classes of the transport library
TransportExceptionClasses ==
    {"HTTPError", "ConnectionError", "Timeout", "TooManyRedirects",
     "requests.JSONDecodeError", "RequestException"}

\* the classes an `except ValueError` of the caller catches
ValueErrorClasses == {"ValueError", "json.JSONDecodeError"}

\* the message says what failed
IsDescriptive(msg) ==
    \/ msg \in {M.ConnectionError, M.TimeoutError, M.JsonDecode}
    \/ \E p \in {M.HttpError, M.RequestError, M.UnexpectedError} :
          IsPrefix(p, msg) /\ Len(msg) > Len(p)

\* the transport step of invocation c failed: requests.get / requests.post,
\* raise_for_status or response.json() raised, or (POST) the decoded body is
\* not a mapping
IsTransportFailure(c) ==
    /\ c.pc = "done" /\ c.transport_calls > 0
    /\ \/ c.outcome # "ok"
       \/ c.verb = "POST" /\ c.response.t # "dict"

\* C15: every failure of HttpClient.get, and of the transport step of
\* HttpClient.post, is raised as a ValueError with a descriptive message;
\* no exception class of the transport library escapes.
C15_UniformTransportError ==
    \A t \in Started :
        IsTransportFailure(inv[t])
        => /\ ~inv[t].returned
           /\ inv[t].error.t \in ValueErrorClasses
           /\ inv[t].error.t \notin TransportExceptionClasses
           /\ IsDescriptive(inv[t].error.s)

C15_Witness ==
    \E t \in Finished :
        /\ inv[t].verb = "GET"
        /\ inv[t].outcome = "requests.JSONDecodeError"
        /\ inv[t].error = ValueError(M.RequestError \o M.JsonDecode)

\* ------------------------------------------------ normalizer properties
\* from_dict has run on the wire form
Parsed == nz.pc \in {"parsed", "rewired", "reparsed", "handled"}

\* the ids of the records of a parsed keyed collection, in order
ItemsOf(x) == IF x.t = "TradeExecutionList" THEN x.executions ELSE x.items
IdOf(item) == IF item.t = "TradeExecution" THEN item.execution_id ELSE item.id
ResultIds(x) == [i \in 1..Len(ItemsOf(x)) |-> IdOf(ItemsOf(x)[i])]

\* the keys, as integers, of the entries that satisfy Keep, in upstream order
KeysOfKept(wire, Keep(_)) ==
    LET kept == SelectSeq(wire.s, Keep) IN [i \in 1..Len(kept) |-> ParseInt(kept[i][1])]

\* an upstream value that denotes a number: a JSON number, or unsigned
\* decimal text
IsNumeric(v) ==
    \/ v.t \in {"int", "float"}
    \/ /\ v.t = "str"
       /\ \A i \in 1..Len(v.s) : v.s[i] \in {DigitChars[k] : k \in 1..10} \cup {"."}
       /\ \E i \in 1..Len(v.s) : v.s[i] # "."
       /\ Cardinality({i \in 1..Len(v.s) : v.s[i] = "."}) <= 1

\* an upstream value that is an integer: a JSON integer or digit text
IsInteger(v) == v.t = "int" \/ (v.t = "str" /\ isdigit(v.s))

\* the member `key` of entry e, if it has one, satisfies Ok
MemberOk(e, key, Ok(_)) == DictHas(e[2], key) => Ok(DictGet(e[2], key))

\* entry e is a mapping whose amount is present and not numeric
HasNonNumericAmount(e) ==
    e[2].t = "dict" /\ ~MemberOk(e, K.amount, IsNumeric)

\* entry e is a mapping under an integer key with every member in range
IsWellFormed(e) ==
    /\ e[2].t = "dict" /\ isdigit(e[1])
    /\ MemberOk(e, K.timestamp, IsInteger)
    /\ \A key \in {K.price, K.amount, K.fee} : MemberOk(e, key, IsNumeric)

\* C12: a keyed collection (deposits, withdrawals, trade executions) in which
\* exactly one entry has a non-numeric amount, the others being well formed,
\* parses without raising, and the result holds exactly the other entries.
C12_BadAmountEntryOmitted ==
    LET bad == {i \in 1..Len(nz.wire.s) : HasNonNumericAmount(nz.wire.s[i])}
        Other(e) == ~HasNonNumericAmount(e)
    IN (/\ Parsed /\ nz.cls \in KeyedClasses
        /\ Cardinality(bad) = 1
        /\ \A i \in 1..Len(nz.wire.s) : i \notin bad => IsWellFormed(nz.wire.s[i]))
       => /\ nz.parsed.returned
          /\ ResultIds(nz.parsed.data) = KeysOfKept(nz.wire, Other)

\* the upstream entry a parsed execution was built from
EntryOf(item) ==
    nz.wire.s[CHOOSE i \in 1..Len(nz.wire.s) : nz.wire.s[i][1] = IntStr(item.execution_id)][2]

\* the executions of a parsed trade history
Executions ==
    IF Parsed /\ nz.cls = "TradeExecutionList" /\ nz.parsed.returned
    THEN {nz.parsed.data.executions[i] : i \in 1..Len(nz.parsed.data.executions)}
    ELSE {}

\* the decision table of trade side and market role
TableRow(action, your_action) ==
    CASE your_action = PyStrV(S.both) -> <<S.self, S.both>>
      [] your_action = PyStrV(S.bid) ->
            <<S.buy, IF action = PyStrV(S.bid) THEN S.taker ELSE S.maker>>
      [] your_action = PyStrV(S.ask) ->
            <<S.sell, IF action = PyStrV(S.ask) THEN S.taker ELSE S.maker>>
      [] OTHER -> <<S.unknown, S.unknown>>

\* C13: for action bid or ask and any your_action (both, bid, ask, anything
\* else or missing), a parsed execution carries the table's trade side and
\* market role.
C13_TableOnBidAndAsk ==
    \A item \in Executions :
        LET action == DictGetOr(EntryOf(item), K.action, Absent)
            your_action == DictGetOr(EntryOf(item), K.your_action, Absent)
        IN action \in {PyStrV(S.bid), PyStrV(S.ask)}
           => <<item.trade_side.s, item.market_role.s>> = TableRow(action, your_action)

C13_Witness ==
    \E item \in Executions :
        /\ DictGetOr(EntryOf(item), K.action, Absent) = PyStrV(S.ask)
        /\ DictGetOr(EntryOf(item), K.your_action, Absent) = PyStrV(S.bid)
        /\ item.trade_side.s = S.buy /\ item.market_role.s = S.maker

\* the value of every field of the parsed ticker equals units / 10^scale of
\* its source, digit for digit
Denotes(d, q) ==
    /\ d.t = "decimal" /\ Len(d.s) = q.scale
    /\ d.n * Pow10(q.scale) + ParseInt(d.s) = q.units

\* C16: for a body that carries all six members, Ticker.from_dict yields
\* for each of last, high, low, ask, bid and volume the decimal its upstream
\* text denotes, and parsing the to_dict of the ticker gives the ticker back.
C16_TickerExactAndRoundTrip ==
    (Parsed /\ nz.cls = "Ticker" /\ Len(nz.wire.s) = 6)
    => /\ nz.parsed.returned
       /\ Denotes(nz.parsed.data.last_price, nz.src.last)
       /\ Denotes(nz.parsed.data.high_price, nz.src.high)
       /\ Denotes(nz.parsed.data.low_price, nz.src.low)
       /\ Denotes(nz.parsed.data.ask_price, nz.src.ask)
       /\ Denotes(nz.parsed.data.bid_price, nz.src.bid)
       /\ Denotes(nz.parsed.data.volume, nz.src.volume)
       /\ nz.pc = "reparsed" => nz.reparsed = nz.parsed

C16_Witness ==
    /\ nz.cls = "Ticker" /\ nz.pc = "reparsed"
    /\ nz.src.last = [units |-> 10, scale |-> 2]
    /\ nz.parsed.data.last_price = [t |-> "decimal", n |-> 0, s |-> <<"1", "0">>]
    /\ nz.reparsed.returned

\* C17 as stated: whatever the action, your_action bid gives buy with taker
\* if action is bid and maker otherwise, and your_action ask gives sell with
\* taker if action is ask and maker otherwise.
C17_MakerForAnyOtherAction ==
    \A item \in Executions :
        LET action == DictGetOr(EntryOf(item), K.action, Absent)
            your_action == DictGetOr(EntryOf(item), K.your_action, Absent)
        IN your_action \in {PyStrV(S.bid), PyStrV(S.ask)}
           => <<item.trade_side.s, item.market_role.s>> = TableRow(action, your_action)

\* C17 amended: your_action bid gives trade side buy and your_action ask
\* gives sell, whatever the action; the market role is taker when action
\* equals your_action, maker when action is the opposite side, and unknown
\* when action is missing, empty or anything else.
C17_UnknownRoleForOtherAction ==
    \A item \in Executions :
        LET action == DictGetOr(EntryOf(item), K.action, Absent)
            your_action == DictGetOr(EntryOf(item), K.your_action, Absent)
        IN your_action \in {PyStrV(S.bid), PyStrV(S.ask)}
           => /\ item.trade_side.s = IF your_action = PyStrV(S.bid) THEN S.buy ELSE S.sell
              /\ item.market_role.s =
                    IF action = your_action THEN S.taker
                    ELSE IF action \in {PyStrV(S.bid), PyStrV(S.ask)} THEN S.maker
                    ELSE S.unknown

C17_Witness ==
    \E item \in Executions :
        /\ DictGetOr(EntryOf(item), K.action, Absent) = Absent
        /\ DictGetOr(EntryOf(item), K.your_action, Absent) = PyStrV(S.bid)
        /\ item.trade_side.s = S.buy /\ item.market_role.s = S.unknown

\* entry e is read by OpenOrderList.from_dict and converts: a mapping under
\* a digit key whose price, amount and timestamp are numbers
IsGoodOrder(e) ==
    /\ isdigit(e[1]) /\ e[2].t = "dict"
    /\ MemberOk(e, K.price, IsNumeric) /\ MemberOk(e, K.amount, IsNumeric)
    /\ MemberOk(e, K.timestamp, IsInteger)

\* C18: OpenOrderList.from_dict does not fail because of a bad entry: it
\* returns, and the orders returned are the entries that convert.
C18_BadOrderDropped ==
    (Parsed /\ nz.cls = "OpenOrderList")
    => /\ nz.parsed.returned
       /\ [i \in 1..Len(nz.parsed.data.open_orders.s) |-> nz.parsed.data.open_orders.s[i][1]]
            = KeysOfKept(nz.wire, IsGoodOrder)

\* entry e holds what C19 names a reason to drop it: its value is no
\* mapping, its key is no integer string, or its timestamp is no integer
IsNamedBad(e) ==
    \/ e[2].t # "dict"
    \/ ~isdigit(e[1])
    \/ ~MemberOk(e, K.timestamp, IsInteger)

\* every decimal member of entry e that from_dict of class cls reads is
\* numeric
DecimalsOk(cls, e) ==
    \A key \in (IF cls = "DepositRecords" THEN {K.amount}
                ELSE IF cls = "WithdrawalRecords" THEN {K.amount, K.fee}
                ELSE {K.price, K.amount, K.fee}) : MemberOk(e, key, IsNumeric)

TimestampOk(e) ==
    LET timestamp == DictGetOr(e[2], K.timestamp, None) IN
    timestamp \in {None, PyStrV(<<>>)} \/ IsInteger(timestamp)

C20_OpenOrdersRoundTrip ==
    (nz.cls = "OpenOrderList" /\ nz.pc = "reparsed")
    => nz.reparsed.returned /\ nz.reparsed.data = nz.parsed.data

\* C21: for TradeExecutionList, DepositRecords and WithdrawalRecords,
\* from_dict accepts what to_dict produces and gives the record back: the
\* ids, sides, roles, amounts and times are the ones of the record.
C21_KeyedRecordsRoundTrip ==
    (nz.cls \in KeyedClasses /\ nz.pc = "reparsed")
    => nz.reparsed.returned /\ nz.reparsed.data = nz.parsed.data

\* the candles of the chart body on the wire
WireCandles == DictGet(nz.wire, K.ohlc_data).s

\* the handler of get_price_chart has returned or raised on a body that is
\* a mapping
ChartHandled ==
    nz.cls = "PriceChartData" /\ nz.pc = "handled" /\ nz.wire.t = "dict"

\* C22: when every upstream candle time is a whole number of milliseconds,
\* to_dict emits for each candle the millisecond value from_dict received,
\* and the handler's second from_dict returns the same candles in the same
\* order.
C22_CandleTimeRoundTrip ==
    (/\ ChartHandled
     /\ \A i \in 1..Len(WireCandles) :
           DictGetOr(WireCandles[i], K.time, None).t = "int")
    => /\ LET emitted == DictGet(to_dict(nz.parsed.data, nz.utcoffset), K.ohlc_data).s IN
          \A i \in 1..Len(WireCandles) :
             DictGet(emitted[i], K.time) = DictGet(WireCandles[i], K.time)
       /\ nz.result.returned
       /\ nz.result.data.candlesticks = nz.parsed.data.candlesticks

\* every member that the mapping d carries under one of keys satisfies Ok
PresentOk(d, keys, Ok(_)) ==
    \A key \in keys : DictHas(d, key) => Ok(DictGet(d, key))

\* the body on the wire is a JSON mapping (for the pair list, a list of
\* mappings) in which every member that is present has the type and range
\* its field needs, so that nothing but an absent key can stand in the way
\* of from_dict
WellFormedWherePresent ==
    LET items(v) == {v.s[i] : i \in 1..Len(v.s)}
        entries == items(nz.wire)
        IsPair(v) == v.t = "list" /\ Len(v.s) = 2 /\ \A x \in items(v) : IsNumeric(x)
        IsSide(v) == v.t = "list" /\ \A x \in items(v) : IsPair(x)
        IsCandle(v) ==
            /\ v.t = "dict" /\ PresentOk(v, {K.time}, IsInteger)
            /\ PresentOk(v, {K.open, K.high, K.low, K.close, K.volume}, IsNumeric)
        IsCandles(v) == v.t = "list" /\ \A x \in items(v) : IsCandle(x)
    IN CASE nz.cls = "Ticker" ->
              nz.wire.t = "dict" /\ \A e \in entries : IsNumeric(e[2])
         [] nz.cls = "OrderBook" ->
              nz.wire.t = "dict" /\ PresentOk(nz.wire, {K.asks, K.bids}, IsSide)
         [] nz.cls = "CurrencyPairs" ->
              /\ nz.wire.t = "list"
              /\ \A p \in entries :
                    /\ p.t = "dict"
                    /\ PresentOk(p, {K.aux_unit_point}, IsInteger)
                    /\ PresentOk(p, {K.item_unit_min, K.item_unit_step, K.aux_unit_min,
                                     K.aux_unit_step}, IsNumeric)
         [] nz.cls = "PriceChartData" ->
              /\ nz.wire.t = "dict"
              /\ PresentOk(nz.wire, {K.ohlc_data}, IsCandles)
              /\ PresentOk(nz.wire, {K.data_count}, IsInteger)
         [] OTHER -> nz.wire.t = "dict" /\ \A e \in entries : IsWellFormed(e)

\* C23: from_dict of every record type returns a record for a body in which
\* keys are absent, filling the fields with defaults: a body that is well
\* formed in every member it carries never makes the parse raise.
C23_AbsentKeyFilledWithDefault ==
    (Parsed /\ WellFormedWherePresent) => nz.parsed.returned

\* the mappings the caller of HttpClient.post passed for invocation t
PassedParams(t) == Handler(auth_provider, inv[t].arg).params
PassedHeaders(t) == Handler(auth_provider, inv[t].arg).headers

\* what those same two objects hold now: once the credential check has
\* passed, post and get_auth_headers work on the caller's object when it is
\* not empty and on a fresh one otherwise
CallerParamsNow(t) ==
    IF inv[t].trace # <<>> /\ Truthy(PassedParams(t))
    THEN inv[t].params ELSE PassedParams(t)
CallerHeadersNow(t) ==
    IF inv[t].trace # <<>> /\ Truthy(PassedHeaders(t))
    THEN inv[t].headers ELSE PassedHeaders(t)

\* C24: signing works on a copy: at every point of a POST, and after it has
\* returned or raised, the params and the headers mapping of the caller hold
\* exactly the entries they held when the call was made.
C24_CallerMappingsUntouched ==
    \A t \in Started :
        inv[t].verb = "POST"
        => /\ CallerParamsNow(t) = PassedParams(t)
           /\ CallerHeadersNow(t) = PassedHeaders(t)

\* the three base URLs ZaifApi.__init__ hands to the facade
BaseUrls == {U.api, U.tapi, U.chart}

\* the part of invocation t that the program holds (the rest of the record
\* is bookkeeping of this model) is empty
HoldsNothing(t) ==
    /\ inv[t].params = None /\ inv[t].headers = None /\ inv[t].local = None
    /\ inv[t].response = None /\ inv[t].data = None /\ inv[t].error = None
    /\ ~inv[t].returned /\ inv[t].body = <<>>

\* C25: over any sequence of invocations, successful or failing, the
\* credentials stay the ones read at startup and the provider the one built
\* from them, every request goes to one of the three base URLs, and between
\* invocations nothing of the previous one is held: an invocation starts
\* from its arguments, the credentials and the clock alone.
C25_StartupStateFramed ==
    /\ [](/\ auth_provider = ZaifApiAuthProvider(env.api_key, env.api_secret)
          /\ \A t \in Threads :
                /\ inv[t].pc = "idle" => HoldsNothing(t)
                /\ inv[t].url # <<>> => \E base \in BaseUrls : IsPrefix(base, inv[t].url))
    /\ [][/\ env' = env
          /\ auth_provider' = auth_provider
          /\ \A t \in Threads :
                (inv[t].pc = "idle" /\ inv'[t].pc # "idle")
                => LET plan == Handler(auth_provider, inv'[t].arg) IN
                   /\ inv'[t].response = None /\ inv'[t].data = None
                   /\ ~inv'[t].returned
                   /\ inv'[t].error \in {None, plan.raise, ValueError(M.NoAuthPost)}
                   /\ inv'[t].params \in {None, EmptyDict, plan.params}
                   /\ inv'[t].headers \in {None, plan.headers}]_vars

\* a second invocation has returned data after an earlier one had sent a
\* signed request
C25_Witness ==
    /\ calls = 2
    /\ inv[1].pc = "done" /\ inv[1].returned
    /\ inv[1].prev_sent # None
    /\ Truthy(env.api_key) /\ auth_provider = ZaifApiAuthProvider(env.api_key, env.api_secret)

\* the listed pairs as Python strings
SupportedValues == {PyStrV(pair) : pair \in SupportedPairs}

\* the currency pair an upstream entry names, None when it names none
UpstreamPair(entry) ==
    IF entry.t = "dict" THEN DictGetOr(entry, K.currency_pair, None) ELSE None

\* the handlers that filter by pair have returned
FilterHandled ==
    /\ nz.pc = "handled"
    /\ nz.cls \in {"OpenOrderList", "TradeExecutionList", "CurrencyPairs"}
    /\ nz.result.returned

\* the pairs of the records returned, in the order returned
ReturnedPairs ==
    LET data == nz.result.data IN
    CASE nz.cls = "OpenOrderList" ->
            [i \in 1..Len(data.open_orders.s) |-> data.open_orders.s[i][2].currency_pair]
      [] nz.cls = "TradeExecutionList" ->
            [i \in 1..Len(data.executions) |-> data.executions[i].currency_pair]
      [] OTHER -> [i \in 1..Len(data.s) |-> data.s[i].currency_pair]

\* the keys of the records returned, in the order returned (for the list of
\* currency pairs, which has no keys, the pairs themselves)
ReturnedKeys ==
    LET data == nz.result.data IN
    CASE nz.cls = "OpenOrderList" ->
            [i \in 1..Len(data.open_orders.s) |-> PyInt(data.open_orders.s[i][1])]
      [] nz.cls = "TradeExecutionList" ->
            [i \in 1..Len(data.executions) |-> PyInt(data.executions[i].execution_id)]
      [] OTHER -> ReturnedPairs

\* the keys of the upstream entries that name a listed pair and satisfy
\* Kept, in upstream order
UpstreamKeys(Kept(_, _)) ==
    IF nz.cls = "CurrencyPairs"
    THEN LET listed == SelectSeq(nz.wire.s, LAMBDA e : UpstreamPair(e) \in SupportedValues)
         IN [i \in 1..Len(listed) |-> UpstreamPair(listed[i])]
    ELSE LET listed == SelectSeq(nz.wire.s, LAMBDA e : /\ UpstreamPair(e[2]) \in SupportedValues
                                                       /\ Kept(e[1], e[2]))
         IN [i \in 1..Len(listed) |-> IF isdigit(listed[i][1])
                                      THEN PyInt(ParseInt(listed[i][1]))
                                      ELSE PyStrV(listed[i][1])]

\* the entries the normalizers keep: those under an integer key, less the
\* executions whose timestamp is present and is no number
KeptByNormalizer(key, entry) ==
    /\ isdigit(key)
    /\ nz.cls = "TradeExecutionList" =>
          LET timestamp == DictGetOr(entry, K.timestamp, None) IN
          HasTimestamp(timestamp) => ~IsException(int(timestamp))

HasUnparseableDate(c) ==
    LET Refused(d) == d.t = "str" /\ ~IsIsoDate(d.s) IN
    \/ c.arg.op = "get_price_chart" /\ (Refused(c.arg.start_date) \/ Refused(c.arg.end_date))
    \/ /\ c.arg.op = "get_trade_executions"
       /\ \/ Truthy(c.arg.start_date) /\ Refused(c.arg.start_date)
          \/ Truthy(c.arg.end_date) /\ Refused(c.arg.end_date)

\* the error names a date that does not parse
IsDateValidation(err) ==
    err.t = "ValueError" /\ (err.s = M.BadDateChart \/ IsPrefix(M.BadIso, err.s))

\* the request of get_trade_executions carries `since` exactly when
\* start_date is not empty and `end` exactly when end_date is not empty
DatesSentWhenGiven(c) ==
    (c.arg.op = "get_trade_executions" /\ c.params.t = "dict")
    => /\ DictHas(c.params, K.since) <=> Truthy(c.arg.start_date)
       /\ DictHas(c.params, K.end) <=> Truthy(c.arg.end_date)

\* C27 as stated: get_price_chart and get_trade_executions with a start_date
\* or end_date that does not parse raise a validation error and make no
\* transport call; get_trade_executions with an empty date leaves out the
\* matching parameter.
C27_UnparseableDateIsValidationError ==
    \A t \in Started :
        /\ HasUnparseableDate(inv[t])
           => /\ inv[t].pc = "done"
              /\ IsValidation(inv[t].error) \/ IsDateValidation(inv[t].error)
              /\ inv[t].transport_calls = 0
        /\ DatesSentWhenGiven(inv[t])

\* C27, amended: such an invocation fails and makes no transport call;
\* get_price_chart raises the validation error, and get_trade_executions
\* raises a validation error when credentials are configured and the
\* unauthenticated error when they are not; get_trade_executions with an
\* empty date leaves out the matching parameter.
C27_UnparseableDateRejected ==
    \A t \in Started :
        /\ HasUnparseableDate(inv[t])
           => /\ inv[t].pc = "done"
              /\ ~inv[t].returned
              /\ inv[t].transport_calls = 0
              /\ IF inv[t].arg.op = "get_trade_executions" /\ ~Truthy(auth_provider)
                 THEN inv[t].error = ValueError(M.NoAuthTool)
                 ELSE IsValidation(inv[t].error) \/ IsDateValidation(inv[t].error)
              /\ (inv[t].arg.op = "get_price_chart"
                  \/ (Truthy(auth_provider) /\ inv[t].arg.currency_pair = None))
                 => IsDateValidation(inv[t].error)
        /\ DatesSentWhenGiven(inv[t])

\* with credentials configured, get_trade_executions for every pair was
\* refused for its start_date before any transport call
C27_Witness ==
    \E t \in Finished :
        /\ inv[t].arg.op = "get_trade_executions"
        /\ Truthy(auth_provider)
        /\ inv[t].arg.currency_pair = None
        /\ inv[t].arg.start_date = PyStrV(In.date_bad)
        /\ IsPrefix(M.BadIso, inv[t].error.s)
        /\ inv[t].transport_calls = 0

\* the items of one side of the upstream order book, none when the body has
\* no such member
UpstreamSide(side) == DictGetOr(nz.wire, side, PyList(<<>>)).s

\* the record's side holds, item for item and in upstream order, the price
\* and quantity of the upstream side
SameSide(items, upstream) ==
    /\ Len(items) = Len(upstream)
    /\ \A i \in 1..Len(upstream) :
          /\ PyStr(items[i].price) = PyStr(upstream[i].s[1])
          /\ PyStr(items[i].quantity) = PyStr(upstream[i].s[2])

\* C28: the order book OrderBook.from_dict returns has asks and bids of the
\* length of the upstream lists, the i-th item holding the price and
\* quantity of the i-th upstream item: nothing is sorted, merged or dropped.
C28_OrderBookAsReceived ==
    (nz.cls = "OrderBook" /\ Parsed /\ nz.parsed.returned)
    => /\ SameSide(nz.parsed.data.asks, UpstreamSide(K.asks))
       /\ SameSide(nz.parsed.data.bids, UpstreamSide(K.bids))

\* an order book arrived with its asks from the higher to the lower price
\* and its bids from the lower to the higher, and was returned so
C28_Witness ==
    /\ nz.cls = "OrderBook" /\ Parsed /\ nz.parsed.returned
    /\ Len(nz.parsed.data.asks) = 2 /\ Len(nz.parsed.data.bids) = 2
    /\ PyStr(nz.parsed.data.asks[1].price) = <<"1", "0", "0">>
    /\ PyStr(nz.parsed.data.asks[2].price) = <<"9", "9">>
    /\ PyStr(nz.parsed.data.bids[1].price) = <<"9", "7", ".", "5">>
    /\ PyStr(nz.parsed.data.bids[2].price) = <<"9", "8">>

\* C29: in every PriceChartData that ChartApi.get_ohlc or get_price_chart
\* returns, data_count is the number of candlesticks.
C29_DataCountIsNumberOfCandles ==
    nz.cls = "PriceChartData"
    => /\ (Parsed /\ nz.parsed.returned)
          => nz.parsed.data.data_count = Len(nz.parsed.data.candlesticks)
       /\ (nz.pc = "handled" /\ nz.result.returned)
          => nz.result.data.data_count = Len(nz.result.data.candlesticks)

\* invocation c of an authenticated tool names a pair outside the list or a
\* date that does not parse
HasInvalidArgument(c) ==
    /\ c.arg.op \in AuthenticatedTools
    /\ \/ c.arg.currency_pair.t = "str" /\ c.arg.currency_pair.s \notin SupportedPairs
       \/ HasUnparseableDate(c)

\* C30: in every authenticated tool handler the credential check comes
\* first: without credentials, an invocation whose pair or date is invalid
\* as well has failed with the unauthenticated error of the handler, not
\* with a validation error, and no call of the facade was made (no request
\* was prepared, signed or sent).
C30_CredentialCheckFirst ==
    \A t \in Started :
        (HasInvalidArgument(inv[t]) /\ ~Truthy(auth_provider))
        => /\ inv[t].pc = "done"
           /\ inv[t].error = ValueError(M.NoAuthTool)
           /\ ~IsValidation(inv[t].error) /\ ~IsDateValidation(inv[t].error)
           /\ inv[t].verb = "" /\ inv[t].url = <<>> /\ inv[t].params = None
           /\ inv[t].trace = <<>> /\ inv[t].transport_calls = 0

\* without credentials, get_trade_executions for an unlisted pair and a
\* start_date that does not parse was refused for the credentials
C30_Witness ==
    \E t \in Finished :
        /\ ~Truthy(auth_provider)
        /\ inv[t].arg.op = "get_trade_executions"
        /\ inv[t].arg.currency_pair = PyStrV(In.doge_jpy)
        /\ inv[t].arg.start_date = PyStrV(In.date_bad)
        /\ inv[t].error = ValueError(M.NoAuthTool)
        /\ inv[t].verb = ""

=============================================================================
